---- MODULE Spec2Model ----
(***************************************************************************)
(* A model of the phyl-ai-chatbot backend (src/main.py,                    *)
(* src/mcp_server_manager.py).                                             *)
(*                                                                         *)
(* Texts exchanged with the data-access subprocess are sequences of        *)
(* tokens; every token stands for a fixed piece of concrete text:          *)
(*   "{" "}" "[" "]" ":" ","    the character itself                       *)
(*   "\""  "'"                  the double / single quote character        *)
(*   " "                        one space                                  *)
(*   "1"                        the digit 1                                *)
(*   "x"                        the letter x                               *)
(*   "True" "False" "None" "true" "false" "null" "raw_text"   that word    *)
(* The concrete text of a token sequence is the concatenation of its       *)
(* tokens' texts.                                                          *)
(*                                                                         *)
(* A parsed value is held in canonical form, a token sequence as well:     *)
(*   string  <<"S">> \o content \o <<"/S">>                                *)
(*   int     <<"N">> \o digits \o <<"/N">>                                 *)
(*   True, False, None   <<"True">>, <<"False">>, <<"None">>               *)
(*   list  <<"L">> \o items \o <<"/L">>,   tuple "T",  set "X"             *)
(*   dict  <<"D">> \o key1 \o value1 \o ... \o <<"/D">>                    *)
(* A set or a dict holds one member per equal key, in the order in which   *)
(* the members were first written.                                         *)
(***************************************************************************)
EXTENDS Integers, Sequences, FiniteSets, TLC

\* ------------------------------------------------------------------------
\* Bounds of the model
\* ------------------------------------------------------------------------

\* Longest text handed to parse_mcp_result in the exhaustive specification.
MaxLen == 4

\* ------------------------------------------------------------------------
\* Tokens
\* ------------------------------------------------------------------------

DQ == "\""
SQ == "'"
SP == " "

Quotes == {DQ, SQ}

\* Tokens that lex as part of a word (identifier, keyword or number).
WordToks == {"True", "False", "None", "true", "false", "null", "x", "1", "raw_text"}

\* The tokens of the texts enumerated exhaustively.
Alphabet == {"{", "}", "[", "]", ":", ",", DQ, SQ, SP, "True", "true", "x", "1"}

RECURSIVE SeqsUpTo(_, _)
SeqsUpTo(S, n) ==
    IF n = 0 THEN {<<>>}
    ELSE LET shorter == SeqsUpTo(S, n - 1)
         IN  shorter \cup {Append(s, a) : s \in {z \in shorter : Len(z) = n - 1}, a \in S}

Min(S) == CHOOSE m \in S : \A o \in S : m <= o

\* First position j >= i of t that is past the end or holds a token outside S.
RunEnd(t, i, S) ==
    Min({j \in i..(Len(t) + 1) :
            /\ \A k \in i..(j - 1) : t[k] \in S
            /\ (j = Len(t) + 1 \/ t[j] \notin S)})

SkipWs(t, i) == RunEnd(t, i, {SP})

\* str.strip() on a text whose only whitespace token is the space.
Strip(t) ==
    LET a == SkipWs(t, 1)
    IN  IF a > Len(t) THEN <<>>
        ELSE LET b == CHOOSE j \in a..Len(t) :
                        t[j] # SP /\ \A k \in (j + 1)..Len(t) : t[k] = SP
             IN  SubSeq(t, a, b)

\* ------------------------------------------------------------------------
\* json.loads and ast.literal_eval on token texts
\*
\* Both are modelled as a lexer followed by a pushdown parser; d is "json"
\* or "py".  A parse result is a record
\*   syn   TRUE iff the text is syntactically well formed
\*   ev    "ok", or the first exception raised while the parsed expression
\*         is converted to a value ("ValueError", "TypeError")
\*   kind  "str", "int", "const", "name", "list", "tuple", "set", "dict"
\*   val   the canonical form of the value
\*   has   the truth of the Python expression  "raw_text" in value
\*         (meaningful for str and the containers only)
\* ------------------------------------------------------------------------

Bad == [syn |-> FALSE, ev |-> "ok", kind |-> "none", val |-> <<>>, has |-> FALSE]

Good(e, k, v, h) == [syn |-> TRUE, ev |-> e, kind |-> k, val |-> v, has |-> h]

StrVal(content) == <<"S">> \o content \o <<"/S">>

RawTextStr == StrVal(<<"raw_text">>)

\* The first exception in evaluation order.
FirstErr(a, b) == IF a # "ok" THEN a ELSE b

\* list, dict and set values are unhashable: as a set member or a dict key
\* they make set() / dict() raise TypeError.
HashErr(kind) == IF kind \in {"list", "dict", "set"} THEN "TypeError" ELSE "ok"

Tag(mode) == CASE mode = "list"  -> "L"
               [] mode = "tuple" -> "T"
               [] mode = "set"   -> "X"
               [] OTHER          -> "D"

\* A lexeme: an atom (ty "str", "int", "const", "name") with its canonical
\* value, a punctuation mark (ty "punct", p the mark), or ty "bad" for text
\* the lexer rejects.  next is the position after it.
Lexeme(ty, val, p, next) == [ty |-> ty, val |-> val, p |-> p, next |-> next]

BadLexeme(i) == Lexeme("bad", <<>>, "", i + 1)

\* The string literal that starts at t[i], a quote.  Python knows the
\* triple-quoted form; a literal ends at the first closing quote(s).
StrLit(d, t, i) ==
    LET q      == t[i]
        n      == Len(t)
        triple == d = "py" /\ i + 2 <= n /\ t[i + 1] = q /\ t[i + 2] = q
        ends3  == {j \in (i + 3)..(n - 2) : t[j] = q /\ t[j + 1] = q /\ t[j + 2] = q}
        ends1  == {j \in (i + 1)..n : t[j] = q}
    IN  IF d = "json" /\ q = SQ THEN BadLexeme(i)
        ELSE IF triple
        THEN IF ends3 = {} THEN BadLexeme(i)
             ELSE Lexeme("str", StrVal(SubSeq(t, i + 3, Min(ends3) - 1)), "", Min(ends3) + 3)
        ELSE IF ends1 = {} THEN BadLexeme(i)
             ELSE Lexeme("str", StrVal(SubSeq(t, i + 1, Min(ends1) - 1)), "", Min(ends1) + 1)

\* The number, keyword or name that starts at t[j].  json.loads scans the
\* longest number or exactly one keyword; Python's tokenizer takes the
\* whole word.
Word(d, t, j) ==
    LET e1  == RunEnd(t, j, {"1"})
        e   == RunEnd(t, j, WordToks)
    IN  IF d = "json"
        THEN CASE t[j] = "1"     -> Lexeme("int", <<"N">> \o SubSeq(t, j, e1 - 1) \o <<"/N">>, "", e1)
               [] t[j] = "true"  -> Lexeme("const", <<"True">>, "", j + 1)
               [] t[j] = "false" -> Lexeme("const", <<"False">>, "", j + 1)
               [] t[j] = "null"  -> Lexeme("const", <<"None">>, "", j + 1)
               [] OTHER          -> BadLexeme(j)
        ELSE CASE e1 = e -> Lexeme("int", <<"N">> \o SubSeq(t, j, e - 1) \o <<"/N">>, "", e)
               [] t[j] = "1" -> BadLexeme(j)   \* "1x": invalid decimal literal
               [] e = j + 1 /\ t[j] \in {"True", "False", "None"} ->
                     Lexeme("const", <<t[j]>>, "", e)
               [] OTHER -> Lexeme("name", SubSeq(t, j, e - 1), "", e)

LexemeAt(d, t, i) ==
    CASE t[i] \in Quotes   -> StrLit(d, t, i)
      [] t[i] \in WordToks -> Word(d, t, i)
      [] OTHER             -> Lexeme("punct", <<>>, t[i], i + 1)

\* The lexemes of t from position i on.  Python joins adjacent string
\* literals into one string.
RECURSIVE LexFrom(_, _, _)
LexFrom(d, t, i) ==
    LET j == SkipWs(t, i)
    IN  IF j > Len(t) THEN <<>>
        ELSE LET lx   == LexemeAt(d, t, j)
                 rest == LexFrom(d, t, lx.next)
             IN  IF d = "py" /\ lx.ty = "str" /\ rest # <<>> /\ rest[1].ty = "str"
                 THEN <<Lexeme("str", SubSeq(lx.val, 1, Len(lx.val) - 1) \o Tail(rest[1].val),
                               "", 0)>> \o Tail(rest)
                 ELSE <<lx>> \o rest

EndTags == {"/S", "/N", "/L", "/T", "/X", "/D"}

\* The position of the last token of the value that starts at v[i]: where
\* the start and end tags from v[i] on first balance.
MemberEnd(v, i) ==
    Min({j \in i..Len(v) :
            Cardinality({k \in i..j : v[k] \in {"S", "N", "L", "T", "X", "D"}})
                = Cardinality({k \in i..j : v[k] \in EndTags})})

\* The members of a container, from v[k] on, each in canonical form.
RECURSIVE MembersFrom(_, _)
MembersFrom(v, k) ==
    IF v[k] \in EndTags THEN <<>>
    ELSE <<SubSeq(v, k, MemberEnd(v, k))>> \o MembersFrom(v, MemberEnd(v, k) + 1)

\* The position in w, a canonical set (or dict, when pairs), of the member
\* (or key) equal to key, looked for from w[k] on; 0 when there is none.
\* Keys and members are one when they are equal, and True == 1.
RECURSIVE HeldAt(_, _, _, _)
HeldAt(w, k, key, pairs) ==
    LET KeyOf(v) == IF v = <<"True">> THEN <<"N", "1", "/N">> ELSE v
    IN  IF w[k] \in EndTags THEN 0
        ELSE IF KeyOf(SubSeq(w, k, MemberEnd(w, k))) = KeyOf(key) THEN k
        ELSE HeldAt(w, IF pairs THEN MemberEnd(w, MemberEnd(w, k) + 1) + 1
                       ELSE MemberEnd(w, k) + 1, key, pairs)

\* A frame of the parser's stack: the container being read.
\*   mode    "top", "list", "dict", "set", "tuple", "brace": a Python
\*           "{...}" whose first member has not yet shown whether it is a
\*           dict or a set, or "sub": the "[...]" of a Python subscript
\*   expect  "member", "sep" (a comma or the end), "colon", "value"
\*   n       members read;  ev, val, has: as in a parse result, so far
\*   kval, kev, kkind   the dict key (or first brace member) held back
\*   lkind, lhas        kind and has of the last member read
\*   pev     ev as it was before the last member was converted
\*   colons  the colons of the slice being read in a subscript
Frame(mode) ==
    [mode |-> mode, expect |-> "member", n |-> 0, ev |-> "ok", val |-> <<>>, has |-> FALSE,
     kval |-> <<>>, kev |-> "ok", kkind |-> "none", lkind |-> "none", lhas |-> FALSE,
     pev |-> "ok", colons |-> 0]

\* The held first member of a brace becomes the first member of a set.
AsSet(f) ==
    [f EXCEPT !.mode = "set",
              !.ev   = FirstErr(f.kev, HashErr(f.kkind)),
              !.val  = f.kval,
              !.has  = f.kval = RawTextStr]

\* Frame f, which has raised nothing so far, with the value v put in: a
\* dict holds one value per key, a set one member of those that are equal.
\* A key that is held keeps its place and takes the new value.
Put(f, v) ==
    CASE f.mode = "dict" ->
            LET w  == <<"D">> \o f.val \o <<"/D">>
                at == HeldAt(w, 2, f.kval, TRUE)
            IN  IF at = 0 THEN f.val \o f.kval \o v.val
                ELSE SubSeq(w, 2, MemberEnd(w, at)) \o v.val
                        \o SubSeq(w, MemberEnd(w, MemberEnd(w, at) + 1) + 1, Len(w) - 1)
      [] f.mode = "set" /\ HeldAt(<<"X">> \o f.val \o <<"/X">>, 2, v.val, FALSE) # 0 -> f.val
      [] OTHER -> f.val \o v.val

\* Frame f takes the value v as its next member, key or value.  What a
\* subscript holds is parsed, and never converted.
Take(f, v) ==
    CASE f.mode = "sub" -> [f EXCEPT !.expect = "sep"]
      [] f.mode = "brace" ->
            [f EXCEPT !.kval = v.val, !.kev = v.ev, !.kkind = v.kind,
                      !.n = 1, !.expect = "sep"]
      [] f.mode = "dict" /\ f.expect = "member" ->
            [f EXCEPT !.kval = v.val, !.kev = v.ev, !.kkind = v.kind, !.expect = "colon"]
      [] f.mode = "dict" /\ f.expect = "value" ->
            [f EXCEPT !.ev  = FirstErr(f.ev, FirstErr(f.kev, FirstErr(v.ev, HashErr(f.kkind)))),
                      !.pev = FirstErr(f.ev, f.kev),
                      !.val = IF FirstErr(f.ev, FirstErr(f.kev, FirstErr(v.ev, HashErr(f.kkind)))) = "ok"
                              THEN Put(f, v) ELSE f.val \o f.kval \o v.val,
                      !.has = f.has \/ f.kval = RawTextStr,
                      !.n = f.n + 1, !.expect = "sep"]
      [] OTHER ->
            [f EXCEPT !.ev  = FirstErr(f.ev, FirstErr(v.ev, IF f.mode = "set"
                                                            THEN HashErr(v.kind) ELSE "ok")),
                      !.pev = f.ev,
                      !.val = IF FirstErr(f.ev, FirstErr(v.ev, HashErr(v.kind))) = "ok"
                              THEN Put(f, v) ELSE f.val \o v.val,
                      !.has = f.has \/ v.val = RawTextStr,
                      !.lkind = v.kind, !.lhas = v.has,
                      !.n = f.n + 1, !.expect = "sep"]

\* Frame f once its last member, or the key it holds back, has been
\* subscripted: the member is no literal, and converting it raises
\* ValueError before anything is made of what it holds.
Subscripted(f) ==
    IF f.mode = "sub" THEN f
    ELSE IF f.mode = "brace" \/ f.expect = "colon"
    THEN [f EXCEPT !.kev = "ValueError", !.kkind = "name"]
    ELSE [f EXCEPT !.ev = FirstErr(f.pev, "ValueError"), !.lkind = "name"]

\* The value a finished container frame stands for.
Closed(f) ==
    IF f.mode = "brace"
    THEN IF f.n = 0 THEN Good("ok", "dict", <<"D", "/D">>, FALSE)
         ELSE Good(AsSet(f).ev, "set", <<"X">> \o f.kval \o <<"/X">>, AsSet(f).has)
    ELSE Good(f.ev, f.mode, <<Tag(f.mode)>> \o f.val \o <<"/" \o Tag(f.mode)>>, f.has)

\* Whether the closing mark p may end frame f here.  A trailing comma
\* before the end is Python's alone.
MayClose(d, f, p) ==
    \/ /\ \/ p = "]" /\ f.mode = "list"
          \/ p = "}" /\ f.mode \in {"dict", "set", "brace"}
       /\ \/ f.expect = "sep"
          \/ f.expect = "member" /\ (f.n = 0 \/ d = "py")
    \/ /\ p = "]" /\ f.mode = "sub"
       /\ \/ f.expect \in {"sep", "value"}
          \/ f.expect = "member" /\ f.n > 0

\* Whether a value may start where frame f stands.
MayStart(d, f, ty) ==
    /\ f.expect \in {"member", "value"}
    /\ (d = "json" /\ f.mode = "dict" /\ f.expect = "member") => ty = "str"

AtomValue(lx) ==
    Good(IF lx.ty = "name" THEN "ValueError" ELSE "ok", lx.ty, lx.val,
         lx.ty = "str" /\ \E k \in 2..(Len(lx.val) - 1) : lx.val[k] = "raw_text")

Failed == [ok |-> FALSE, stack |-> <<>>]

\* One lexeme read by the parser in state st = [ok, stack]; the top of the
\* stack is its last frame.
Step(d, st, lx) ==
    LET h    == Len(st.stack)
        f    == st.stack[h]
        base == SubSeq(st.stack, 1, h - 1)
        put(g)  == [ok |-> TRUE, stack |-> Append(base, g)]
    IN  IF ~st.ok \/ lx.ty = "bad" THEN Failed
        ELSE IF lx.ty # "punct"
        THEN IF MayStart(d, f, lx.ty) THEN put(Take(f, AtomValue(lx))) ELSE Failed
        ELSE IF lx.p \in {"[", "{"}
        THEN IF MayStart(d, f, "open")
             THEN [ok |-> TRUE,
                   stack |-> Append(st.stack,
                                Frame(IF lx.p = "[" THEN "list"
                                      ELSE IF d = "json" THEN "dict" ELSE "brace"))]
             ELSE IF d = "py" /\ lx.p = "[" /\ f.expect \in {"sep", "colon"}
             THEN [ok |-> TRUE, stack |-> Append(st.stack, Frame("sub"))]   \* a subscript
             ELSE Failed
        ELSE IF lx.p \in {"]", "}"}
        THEN IF h > 1 /\ MayClose(d, f, lx.p)
             THEN [ok |-> TRUE,
                   stack |-> Append(SubSeq(st.stack, 1, h - 2),
                                    IF f.mode = "sub" THEN Subscripted(st.stack[h - 1])
                                    ELSE Take(st.stack[h - 1], Closed(f)))]
             ELSE Failed
        ELSE IF f.mode = "sub"
        THEN IF lx.p = "," /\ f.expect \in {"sep", "value"}
             THEN put([f EXCEPT !.expect = "member", !.n = f.n + 1, !.colons = 0])
             ELSE IF lx.p = ":" /\ f.colons < 2
             THEN put([f EXCEPT !.expect = "value", !.colons = f.colons + 1])
             ELSE Failed
        ELSE IF lx.p = ","
        THEN IF f.expect # "sep" \/ (f.mode = "top" /\ d = "json") THEN Failed
             ELSE put([(IF f.mode = "brace" THEN AsSet(f) ELSE f) EXCEPT
                          !.mode   = IF f.mode = "top" THEN "tuple"
                                     ELSE IF f.mode = "brace" THEN "set" ELSE f.mode,
                          !.expect = "member"])
        ELSE IF lx.p = ":"
        THEN IF f.mode = "dict" /\ f.expect = "colon" THEN put([f EXCEPT !.expect = "value"])
             ELSE IF f.mode = "brace" /\ f.expect = "sep"
             THEN put([f EXCEPT !.mode = "dict", !.n = 0, !.expect = "value"])
             ELSE Failed
        ELSE Failed

RECURSIVE Run(_, _, _, _)
Run(d, lexs, k, st) ==
    IF k > Len(lexs) THEN st ELSE Run(d, lexs, k + 1, Step(d, st, lexs[k]))

\* The whole text parsed: one value, or (Python) the members of a tuple
\* written without parentheses.
Parsed(st) ==
    LET f == st.stack[1]
    IN  IF ~st.ok \/ Len(st.stack) # 1 THEN Bad
        ELSE IF f.mode = "top" /\ f.expect = "sep" THEN Good(f.ev, f.lkind, f.val, f.lhas)
        ELSE IF f.mode = "tuple" /\ f.expect \in {"sep", "member"} THEN Closed(f)
        ELSE Bad

ParseText(d, t) ==
    Parsed(Run(d, LexFrom(d, t, 1), 1, [ok |-> TRUE, stack |-> <<Frame("top")>>]))

\* json.loads(text)
JsonLoads(t) == ParseText("json", t)

\* ast.literal_eval(text): leading blanks are stripped first.
LiteralEval(t) == ParseText("py", SubSeq(t, SkipWs(t, 1), Len(t)))

\* ------------------------------------------------------------------------
\* parse_mcp_result
\* ------------------------------------------------------------------------

ParsingErrorText == "Could not parse as JSON or Python literal"

\* {"raw_text": text}, with "parsing_error" added when marked.
RawTextWrapper(text, marked) ==
    <<"D">> \o StrVal(<<"raw_text">>) \o StrVal(text)
            \o (IF marked THEN StrVal(<<"parsing_error">>) \o StrVal(<<ParsingErrorText>>)
                          ELSE <<>>)
            \o <<"/D">>

\* str.replace("'", '"').replace('True', 'true').replace('False', 'false')
\*    .replace('None', 'null')
QuoteConversion(t) ==
    [k \in 1..Len(t) |->
        CASE t[k] = SQ      -> DQ
          [] t[k] = "True"  -> "true"
          [] t[k] = "False" -> "false"
          [] t[k] = "None"  -> "null"
          [] OTHER          -> t[k]]

Returned(strategy, kind, val, has) ==
    [outcome |-> "returned", exc |-> "none", strategy |-> strategy,
     kind |-> kind, val |-> val, has |-> has]

Raised(exc) ==
    [outcome |-> "raised", exc |-> exc, strategy |-> 2,
     kind |-> "none", val |-> <<>>, has |-> FALSE]

\* The strategies with ast.literal_eval tried before json.loads.
LiteralFirst(result_text, js, py, cv) ==
        IF Strip(result_text) = <<>>
        THEN Returned(0, "dict", RawTextWrapper(result_text, FALSE), TRUE)
        ELSE IF py.syn /\ py.ev = "ok" THEN Returned(2, py.kind, py.val, py.has)
        ELSE IF js.syn THEN Returned(1, js.kind, js.val, js.has)
        ELSE IF cv.syn THEN Returned(3, cv.kind, cv.val, cv.has)
        ELSE Returned(4, "dict", RawTextWrapper(result_text, TRUE), TRUE)

\* strategy: 0 the empty-text return, 1 json.loads, 2 ast.literal_eval,
\* 3 json.loads after the quote conversion, 4 the final fallback.
\* js, py and cv are what the three parsing attempts make of the text.
Strategies(result_text, js, py, cv) ==
        IF Strip(result_text) = <<>>
        THEN Returned(0, "dict", RawTextWrapper(result_text, FALSE), TRUE)
        ELSE IF js.syn THEN Returned(1, js.kind, js.val, js.has)
        ELSE IF py.syn /\ py.ev = "ok" THEN Returned(2, py.kind, py.val, py.has)
        ELSE IF py.syn /\ py.ev # "ValueError"
        THEN Raised(py.ev)   \* neither ValueError nor SyntaxError: not caught
        ELSE IF cv.syn THEN Returned(3, cv.kind, cv.val, cv.has)
        ELSE Returned(4, "dict", RawTextWrapper(result_text, TRUE), TRUE)

ParseMcpResult(result_text) ==
    Strategies(result_text, JsonLoads(result_text), LiteralEval(result_text),
               JsonLoads(QuoteConversion(result_text)))

\* ------------------------------------------------------------------------
\* Reading a canonical value
\* ------------------------------------------------------------------------

\* dict.get(key, default) on a canonical dict: the last entry written for
\* the key is the one the dict holds.
DictGet(v, key, default) ==
    LET m    == MembersFrom(v, 2)
        hits == {k \in 1..(Len(m) \div 2) : m[2 * k - 1] = key}
    IN  IF hits = {} THEN default ELSE m[2 * (CHOOSE k \in hits : \A o \in hits : o <= k)]

\* For comparison: the test `value is not None`, true of an empty list.
NotNone(v) == v # <<"None">>

\* bool(value): empty containers, the empty string, None and False are falsy.
Truthy(v) == v \notin {<<>>, <<"D", "/D">>, <<"L", "/L">>, <<"S", "/S">>, <<"None">>, <<"False">>}

\* json.dumps raises TypeError on a value that holds a set.
JsonSerializable(v) == \A k \in 1..Len(v) : v[k] # "X"

\* json.dumps(value): the JSON text of a canonical value that holds no set,
\* written from v[k] on.  stack holds a frame for each open container: "L0"
\* and "L1" for a list or tuple before its first and its later members,
\* "K0" and "K1" for a dict before its first and its later keys, "V" for a
\* dict before a value; instr is "S" inside a string, "N" inside a number,
\* "NK" inside a number that is a dict key (written as a string).  Members
\* are separated by ", " and a key from its value by ": "; a double quote
\* inside a string is escaped.
RECURSIVE JsonDumpsFrom(_, _, _, _)
JsonDumpsFrom(v, k, stack, instr) ==
    IF k > Len(v) THEN <<>>
    ELSE LET w     == v[k]
             h     == Len(stack)
             top   == IF h = 0 THEN "none" ELSE stack[h]
             iskey == top \in {"K0", "K1"}
             sep   == CASE top \in {"L1", "K1"} -> <<",", SP>>
                        [] top = "V"             -> <<":", SP>>
                        [] OTHER                 -> <<>>
             adv   == IF h = 0 THEN stack
                      ELSE [stack EXCEPT ![h] = CASE top \in {"L0", "L1"} -> "L1"
                                                  [] top \in {"K0", "K1"} -> "V"
                                                  [] OTHER                -> "K1"]
             pop   == SubSeq(stack, 1, h - 1)
             js    == CASE w = "True" -> "true" [] w = "False" -> "false" [] OTHER -> "null"
         IN  CASE instr = "S" ->
                    IF w = "/S" THEN <<DQ>> \o JsonDumpsFrom(v, k + 1, stack, "")
                    ELSE (IF w = DQ THEN <<"\\", DQ>> ELSE <<w>>)
                             \o JsonDumpsFrom(v, k + 1, stack, "S")
               [] instr \in {"N", "NK"} ->
                    IF w = "/N"
                    THEN (IF instr = "NK" THEN <<DQ>> ELSE <<>>)
                             \o JsonDumpsFrom(v, k + 1, stack, "")
                    ELSE <<w>> \o JsonDumpsFrom(v, k + 1, stack, instr)
               [] w = "S" -> sep \o <<DQ>> \o JsonDumpsFrom(v, k + 1, adv, "S")
               [] w = "N" ->
                    sep \o (IF iskey THEN <<DQ>> ELSE <<>>)
                        \o JsonDumpsFrom(v, k + 1, adv, IF iskey THEN "NK" ELSE "N")
               [] w \in {"True", "False", "None"} ->
                    sep \o (IF iskey THEN <<DQ, js, DQ>> ELSE <<js>>)
                        \o JsonDumpsFrom(v, k + 1, adv, "")
               [] w \in {"L", "T"} ->
                    sep \o <<"[">> \o JsonDumpsFrom(v, k + 1, Append(adv, "L0"), "")
               [] w = "D" ->
                    sep \o <<"{">> \o JsonDumpsFrom(v, k + 1, Append(adv, "K0"), "")
               [] w \in {"/L", "/T"} -> <<"]">> \o JsonDumpsFrom(v, k + 1, pop, "")
               [] OTHER -> <<"}">> \o JsonDumpsFrom(v, k + 1, pop, "")

\* ------------------------------------------------------------------------
\* query_mcp_server: what it makes of the subprocess's reply
\* ------------------------------------------------------------------------

\* A Python string argument is a TLA+ string; "None" stands for None.
TruthyStr(a) == a \notin {"", "None"}

\* For comparison: the chain without its tests of object_name and sql_query.
LaxRequest(use_tool, sql_query, schema_name, object_name) ==
    CASE use_tool = "list_objects" ->
            [tool |-> "list_objects", arg |-> schema_name, schema |-> schema_name]
      [] use_tool = "get_object_details" ->
            [tool |-> "get_object_details", arg |-> object_name, schema |-> schema_name]
      [] use_tool = "execute_sql" ->
            [tool |-> "execute_sql", arg |-> sql_query, schema |-> "None"]
      [] OTHER -> [tool |-> "invalid", arg |-> "None", schema |-> "None"]

\* The if/elif chain that picks the session.call_tool request; "invalid" is
\* the else branch, which raises.
ToolRequest(use_tool, sql_query, schema_name, object_name) ==
    CASE use_tool = "list_objects" ->
            [tool |-> "list_objects", arg |-> schema_name, schema |-> schema_name]
      [] use_tool = "get_object_details" /\ TruthyStr(object_name) ->
            [tool |-> "get_object_details", arg |-> object_name, schema |-> schema_name]
      [] use_tool = "execute_sql" /\ TruthyStr(sql_query) ->
            [tool |-> "execute_sql", arg |-> sql_query, schema |-> "None"]
      [] OTHER -> [tool |-> "invalid", arg |-> "None", schema |-> "None"]

\* The dict query_mcp_server returns; raw = "absent" when it has no 'raw' key.
ToolResult(success, data, raw) == [success |-> success, data |-> data, raw |-> raw]

NoResult == ToolResult(FALSE, <<>>, "absent")

\* What leaves a block of code: a returned value or a raised exception.
Ret(v) == [tag |-> "ret", exc |-> "none", res |-> v]
Exc(e) == [tag |-> "exc", exc |-> e, res |-> NoResult]

\* The result.content branch: content is the sequence of texts of the
\* reply's content items.
\* The logging and the return that follow parse_mcp_result, whose outcome
\* is p.
AfterParse(use_tool, p) ==
    IF p.outcome = "raised" THEN Exc(p.exc)
    \* "raw_text" in parsed_result: an int, bool or None is not iterable
    ELSE IF p.kind \in {"int", "const"} THEN Exc("TypeError")
    \* parsed_result.get('raw_text', '')[:200] in the execute_sql logging:
    \* only a dict has .get, and only a str, list or tuple can be sliced
    ELSE IF use_tool = "execute_sql" /\ p.has /\ p.kind # "dict"
    THEN Exc("AttributeError")
    ELSE IF use_tool = "execute_sql" /\ p.has
                /\ DictGet(p.val, RawTextStr, StrVal(<<>>))[1] \notin {"S", "L", "T"}
    THEN Exc("TypeError")
    \* json.dumps(parsed_result) in the logging
    ELSE IF ~JsonSerializable(p.val) THEN Exc("TypeError")
    ELSE Ret(ToolResult(TRUE, p.val, "absent"))

ProcessReply(use_tool, content) ==
    IF Len(content) = 0
    THEN Ret(ToolResult(FALSE, <<"D", "/D">>, "absent"))
    ELSE AfterParse(use_tool, ParseMcpResult(Strip(content[1])))

\* except Exception as e: the failed result with its diagnostic text.
McpServerError(e) == ToolResult(FALSE, <<"None">>, "MCP server error: " \o e)

\* ------------------------------------------------------------------------
\* The fresh-connection workflow's pure steps
\* ------------------------------------------------------------------------

\* A string-valued outcome: the returned text, or the exception raised.
RetS(t) == [tag |-> "ret", exc |-> "none", text |-> t]
ExcS(e) == [tag |-> "exc", exc |-> e, text |-> ""]

NoOutcome == [tag |-> "none", exc |-> "none", text |-> ""]

\* [table.get("name", "") for table in tables_data
\*      if table.get("type") in ["table", "BASE TABLE"]]
\* for a list; [] for any other value.  A member that is no dict has no
\* .get: AttributeError.
TableRows(data) == IF Len(data) > 0 /\ data[1] = "L" THEN MembersFrom(data, 2) ELSE <<>>

TableNamesRaise(data) ==
    \E k \in 1..Len(TableRows(data)) :
        TableRows(data)[k] = <<>> \/ TableRows(data)[k][1] # "D"

RECURSIVE NamesOf(_)
NamesOf(rows) ==
    IF rows = <<>> THEN <<>>
    ELSE LET table == rows[1]
             keep  == DictGet(table, StrVal(<<"type">>), <<"None">>)
                          \in {StrVal(<<"table">>), StrVal(<<"BASE TABLE">>)}
         IN  (IF keep THEN <<DictGet(table, StrVal(<<"name">>), StrVal(<<>>))>> ELSE <<>>)
                 \o NamesOf(Tail(rows))

TableNames(data) == NamesOf(TableRows(data))

\* ', '.join(table_names) raises TypeError on a name that is no string.
JoinRaises(names) == \E k \in 1..Len(names) : (names[k] = <<>> \/ names[k][1] # "S")

\* ', '.join(table_names), for names that are strings.
RECURSIVE JoinNames(_)
JoinNames(names) ==
    IF names = <<>> THEN <<>>
    ELSE SubSeq(names[1], 2, Len(names[1]) - 1)
            \o (IF Len(names) > 1 THEN <<",", SP>> \o JoinNames(Tail(names)) ELSE <<>>)

\* For comparison: a prompt that leaves the results out.
PromptWithoutResults(q, names, data) ==
    <<"Student Question: \"">> \o q \o <<"\"", "\n", "Available Tables: ">>
        \o JoinNames(names)
        \o <<"\n", "\n",
             "Provide a clear, conversational answer using the data. Don't mention SQL or technical details.">>

\* final_prompt, the f-string of execute_fresh_connection_workflow.
FinalPrompt(q, names, data) ==
    <<"Student Question: \"">> \o q \o <<"\"", "\n", "Available Tables: ">>
        \o JoinNames(names)
        \o <<"\n", "SQL Results: ">> \o JsonDumpsFrom(data, 1, <<>>, "")
        \o <<"\n", "\n",
             "Provide a clear, conversational answer using the data. Don't mention SQL or technical details.">>

\* question.lower(), token by token.
LowerTok(w) == IF w = "Email" THEN "email" ELSE IF w = "What" THEN "what" ELSE w

Lower(q) == [k \in 1..Len(q) |-> LowerTok(q[k])]

\* question_lower.split(): the words between runs of whitespace, each word
\* a sequence of tokens.
RECURSIVE SplitWords(_)
SplitWords(q) ==
    LET a == SkipWs(q, 1)
        b == RunEnd(q, a, {w \in {q[k] : k \in 1..Len(q)} : w # SP})
    IN  IF a > Len(q) THEN <<>>
        ELSE <<SubSeq(q, a, b - 1)>> \o SplitWords(SubSeq(q, b, Len(q)))

\* The keywords of each routing family that are substrings of a lower-case
\* question token (no keyword spans two of the tokens used).
KeywordsIn(w) ==
    CASE w = "policy"      -> {"policy"}
      [] w = "email"       -> {"email"}
      [] w = "due"         -> {"due"}
      [] w = "course"      -> {"course"}
      [] w = "module"      -> {"module"}
      [] w = "instructors" -> {"instructor"}
      [] OTHER             -> {}

AssignmentWords == {"assignment", "quiz", "test", "exam", "due", "homework"}
ModuleWords     == {"module", "topic", "cover", "subject", "unit"}
PolicyWords     == {"policy", "rule", "grade", "attendance", "late", "extension", "email"}
CourseInfoWords == {"instructor", "teacher", "professor", "contact", "email", "office",
                    "hours", "textbook", "book", "mastering", "cost", "price", "buy",
                    "purchase", "class", "schedule", "time", "when", "where", "location",
                    "room", "technology", "brightspace", "tophat", "collaborate",
                    "support", "tutorial", "ta", "teaching", "assistant", "help",
                    "course", "syllabus", "hybrid", "online", "format"}

\* any(word in question_lower for word in words)
AnyWord(q, words) == \E k \in 1..Len(q) : KeywordsIn(LowerTok(q[k])) \cap words # {}

\* The number of characters of a token's text.
TokLen(w) == CASE w = "policy" -> 6
               [] w = "email"  -> 5
               [] w = "due"    -> 3
               [] w = "what"   -> 4
               [] w = "the"    -> 3
               [] w = "is"     -> 2
               [] w = "are"    -> 3
               [] w = "who"    -> 3
               [] w = "course" -> 6
               [] w = "module" -> 6
               [] w = "policies?"   -> 9
               [] w = "instructors" -> 11
               [] w = "from"   -> 4
               [] w = "/**/"   -> 4
               [] w = "users"  -> 5
               [] w = "--"     -> 2
               [] w = "/**/union/**/select/**/null,null,null/**/" -> 41
               [] OTHER        -> 1

RECURSIVE WordLen(_)
WordLen(word) == IF word = <<>> THEN 0 ELSE TokLen(word[1]) + WordLen(Tail(word))

\* The text of a token sequence: its tokens' texts, concatenated.
RECURSIVE WordText(_)
WordText(word) == IF word = <<>> THEN "" ELSE word[1] \o WordText(Tail(word))

\* [word for word in question_lower.split() if len(word) > 3 and word not in stop]
\* (each word kept as its tokens)
RECURSIVE SearchTerms(_, _)
SearchTerms(words, stop) ==
    IF words = <<>> THEN <<>>
    ELSE (IF WordLen(words[1]) > 3 /\ WordText(words[1]) \notin stop
          THEN <<words[1]>> ELSE <<>>) \o SearchTerms(Tail(words), stop)

\* For comparison: a family's table taken for discovered whatever the list.
NamesIgnored(name, table_names) == TRUE

\* "name" in table_names
InNames(name, table_names) == \E k \in 1..Len(table_names) : table_names[k] = StrVal(<<name>>)

\* The texts c[k], c[k + 1], ... joined: for the members of a list, tuple or
\* set (kind "L") with ", " between them, for the keys and values of a dict
\* ("D") with ": " after a key as well, for the pieces of a string ("S")
\* with nothing.
RECURSIVE JoinTexts(_, _, _)
JoinTexts(c, k, kind) ==
    IF k > Len(c) THEN <<>>
    ELSE (IF k = 1 \/ kind = "S" THEN <<>>
          ELSE IF kind = "D" /\ k % 2 = 0 THEN <<":", SP>> ELSE <<",", SP>>)
            \o c[k] \o JoinTexts(c, k + 1, kind)

\* repr(value): the texts Python may write for a canonical value.  A string
\* is written between single quotes, with the single quotes it holds
\* escaped, or between double quotes when it holds single quotes only.  The
\* members of a set are written in the order of their hashes, which differs
\* from run to run: every order is one it may take.
RECURSIVE PyRepr(_)
PyRepr(v) ==
    LET c      == SubSeq(v, 2, Len(v) - 1)
        ms     == MembersFrom(v, 2)
        n      == Len(ms)
        orders == IF v[1] = "X"
                  THEN {p \in [1..n -> 1..n] : \A i, j \in 1..n : p[i] = p[j] => i = j}
                  ELSE {[i \in 1..n |-> i]}
        texts  == {t \in [1..n -> UNION {PyRepr(ms[i]) : i \in 1..n}] :
                      \A i \in 1..n : t[i] \in PyRepr(ms[i])}
        inner  == {JoinTexts([i \in 1..n |-> t[p[i]]], 1, IF v[1] = "D" THEN "D" ELSE "L") :
                      p \in orders, t \in texts}
        has(q) == \E k \in 1..Len(c) : c[k] = q
    IN  CASE v[1] = "S" ->
                {IF has(SQ) /\ ~has(DQ) THEN <<DQ>> \o c \o <<DQ>>
                 ELSE <<SQ>> \o JoinTexts([k \in 1..Len(c) |->
                                              IF c[k] = SQ THEN <<"\\", SQ>> ELSE <<c[k]>>],
                                          1, "S") \o <<SQ>>}
          [] v[1] = "N" -> {c}
          [] v[1] = "L" -> {<<"[">> \o x \o <<"]">> : x \in inner}
          [] v[1] = "T" -> {<<"(">> \o x \o (IF n = 1 THEN <<",">> ELSE <<>>) \o <<")">> :
                               x \in inner}
          [] v[1] \in {"X", "D"} -> {<<"{">> \o x \o <<"}">> : x \in inner}
          [] OTHER -> {v}

\* The texts that f"{table_names[0]}" may give: str(value), the text itself
\* for a string and repr(value) for any other value.
NameText(v) == IF v[1] = "S" THEN {SubSeq(v, 2, Len(v) - 1)} ELSE PyRepr(v)

\* The SQL texts are token sequences like the other texts: a quote, the
\* keyword FROM, the table name after it and each token of a spliced search
\* term are tokens of their own, the text between them is one token.
PolicySearch(term) ==
    <<"SELECT policy_category, policy_name, policy_description, details, specific_rules ", "FROM", SP, "policies", " WHERE policy_name ILIKE ", SQ, "%">>
        \o term
        \o <<"%", SQ, " OR policy_description ILIKE ", SQ, "%">>
        \o term
        \o <<"%", SQ, " OR details ILIKE ", SQ, "%">>
        \o term
        \o <<"%", SQ, " OR specific_rules ILIKE ", SQ, "%">>
        \o term
        \o <<"%", SQ, " ORDER BY policy_category, policy_name;">>

\* The query appended to union_queries for one table name: none for a name
\* that is none of the four.
UnionQuery(name, term) ==
    CASE name = StrVal(<<"assignments">>) ->
            <<<<"SELECT ", SQ, "assignment", SQ, " as source, assignment_name as name, description as content ", "FROM", SP, "assignments", " WHERE assignment_name ILIKE ", SQ, "%">>
                \o term
                \o <<"%", SQ, " OR description ILIKE ", SQ, "%">>
                \o term
                \o <<"%", SQ>>>>
      [] name = StrVal(<<"modules">>) ->
            <<<<"SELECT ", SQ, "module", SQ, " as source, module_name as name, module_description as content ", "FROM", SP, "modules", " WHERE module_name ILIKE ", SQ, "%">>
                \o term
                \o <<"%", SQ, " OR module_description ILIKE ", SQ, "%">>
                \o term
                \o <<"%", SQ>>>>
      [] name = StrVal(<<"policies">>) ->
            <<<<"SELECT ", SQ, "policy", SQ, " as source, policy_name as name, policy_description as content ", "FROM", SP, "policies", " WHERE policy_name ILIKE ", SQ, "%">>
                \o term
                \o <<"%", SQ, " OR policy_description ILIKE ", SQ, "%">>
                \o term
                \o <<"%", SQ>>>>
      [] name = StrVal(<<"course_info">>) ->
            <<<<"SELECT ", SQ, "course_info", SQ, " as source, title as name, details as content ", "FROM", SP, "course_info", " WHERE title ILIKE ", SQ, "%">>
                \o term
                \o <<"%", SQ, " OR details ILIKE ", SQ, "%">>
                \o term
                \o <<"%", SQ, " OR contact_info ILIKE ", SQ, "%">>
                \o term
                \o <<"%", SQ, " OR additional_notes ILIKE ", SQ, "%">>
                \o term
                \o <<"%", SQ>>>>
      [] OTHER -> <<>>

RECURSIVE UnionQueries(_, _)
UnionQueries(table_names, term) ==
    IF table_names = <<>> THEN <<>>
    ELSE UnionQuery(table_names[1], term) \o UnionQueries(Tail(table_names), term)

RECURSIVE JoinUnion(_)
JoinUnion(qs) ==
    IF Len(qs) = 1 THEN qs[1] ELSE qs[1] \o <<" UNION ALL ">> \o JoinUnion(Tail(qs))

\* generate_smart_sql_no_schema: the SQL texts it may return, each as its
\* tokens (one text, but for a first table name that holds a set).
GenerateSmartSql(question, table_names) ==
    LET q     == Lower(question)
        words == SplitWords(q)
        pol   == SearchTerms(words, {"what", "what's", "policy", "policies"})
        gen   == SearchTerms(words, {})
        union == IF gen # <<>> /\ table_names # <<>>
                 THEN UnionQueries(table_names, gen[1]) ELSE <<>>
    IN  IF InNames("assignments", table_names) /\ AnyWord(q, AssignmentWords)
        THEN {<<"SELECT * ", "FROM", SP, "assignments", " ORDER BY due_date, week;">>}
        ELSE IF InNames("modules", table_names) /\ AnyWord(q, ModuleWords)
        THEN {<<"SELECT * ", "FROM", SP, "modules", " ORDER BY block_code, start_week;">>}
        ELSE IF InNames("policies", table_names) /\ AnyWord(q, PolicyWords)
        THEN IF AnyWord(q, {"email"})
             THEN {PolicySearch(<<"email">>)}
             ELSE IF pol # <<>>
             THEN {PolicySearch(pol[1])}
             ELSE {<<"SELECT policy_category, policy_name, policy_description, details, specific_rules ", "FROM", SP, "policies", " ORDER BY policy_category, policy_name;">>}
        ELSE IF InNames("course_info", table_names) /\ AnyWord(q, CourseInfoWords)
        THEN {<<"SELECT * ", "FROM", SP, "course_info", " ORDER BY info_category, info_type;">>}
        ELSE IF union # <<>> THEN {JoinUnion(union) \o <<";">>}
        ELSE IF table_names # <<>>
        THEN {<<"SELECT * ", "FROM", SP>> \o name \o <<" LIMIT 10;">> : name \in NameText(table_names[1])}
        ELSE {<<"SELECT 1;">>}

\* The tables an SQL text reads: the names that follow a FROM keyword
\* outside string literals and comments.  A quote opens or closes a string
\* literal, "--" outside a literal starts a comment that runs to the end of
\* the line (the texts are one line), blanks and /**/ separate words.
RECURSIVE TablesFrom(_, _, _, _)
TablesFrom(text, k, in_string, after_from) ==
    IF k > Len(text) \/ (~in_string /\ text[k] = "--") THEN {}
    ELSE LET quote   == text[k] = SQ
             skipped == quote \/ in_string
             blank   == text[k] \in {SP, "/**/"}
             keyword == text[k] \in {"FROM", "from"}
             name    == ~skipped /\ after_from /\ ~blank /\ ~keyword
         IN  (IF name THEN {text[k]} ELSE {})
                \cup TablesFrom(text, k + 1, in_string # quote,
                                IF skipped THEN after_from
                                ELSE keyword \/ (after_from /\ blank))

\* ------------------------------------------------------------------------
\* The LLM service's responses
\* ------------------------------------------------------------------------

NoInput == [schema_name |-> "absent", object_name |-> "absent", sql |-> "absent"]

TextBlock(t) ==
    [type |-> "text", text |-> t, id |-> "none", name |-> "none", input |-> NoInput]

ToolUseBlock(id, name, input) ==
    [type |-> "tool_use", text |-> "absent", id |-> id, name |-> name, input |-> input]

\* response.content[0].text
FirstText(content) ==
    IF Len(content) = 0 THEN ExcS("IndexError")
    ELSE IF content[1].type # "text" THEN ExcS("AttributeError")
    ELSE RetS(content[1].text)

\* ------------------------------------------------------------------------
\* Structured values and the dialects they are serialized in
\* ------------------------------------------------------------------------

\* Longest list that is serialized.
MaxItems == 2

\* An atom: a string with its content, or a constant.
Atoms ==
    [ty : {"str"}, c : {<<"x">>, <<"None">>, <<"True">>, <<SQ>>, <<DQ>>}]
        \cup [ty : {"const"}, c : {<<"True">>, <<"None">>}]

\* The values serialized: lists of atoms.
Values == SeqsUpTo(Atoms, MaxItems) \ {<<>>}

\* A dialect: the quote its strings are written in by preference, and the
\* spelling of its constants.  (DQ, "json") is strict JSON, (SQ, "py") is
\* Python's repr, the other two are the mixed forms.
Dialects == [quote : Quotes, const : {"json", "py"}]

\* Strict JSON has no way but a backslash escape to write a double quote
\* inside a string; such values are left out.
Writable(dialect, v) ==
    (dialect.quote = DQ /\ dialect.const = "json")
        => \A k \in 1..Len(v) : v[k].ty = "str" => DQ \notin {v[k].c[j] : j \in 1..Len(v[k].c)}

\* A string is written in the preferred quote, or in the other one when
\* its content holds the preferred one (as Python's repr does).
WriteAtom(dialect, a) ==
    IF a.ty = "str"
    THEN LET q == IF dialect.quote \in {a.c[j] : j \in 1..Len(a.c)}
                  THEN (IF dialect.quote = DQ THEN SQ ELSE DQ) ELSE dialect.quote
         IN  <<q>> \o a.c \o <<q>>
    ELSE IF dialect.const = "py" THEN a.c
    ELSE IF a.c = <<"True">> THEN <<"true">>
    ELSE IF a.c = <<"False">> THEN <<"false">>
    ELSE <<"null">>

RECURSIVE WriteItems(_, _)
WriteItems(dialect, v) ==
    IF Len(v) = 1 THEN WriteAtom(dialect, v[1])
    ELSE WriteAtom(dialect, v[1]) \o <<",", SP>> \o WriteItems(dialect, Tail(v))

\* The text of the list v in the dialect.
Serialize(dialect, v) == <<"[">> \o WriteItems(dialect, v) \o <<"]">>

RECURSIVE CanonicalItems(_)
CanonicalItems(v) ==
    IF v = <<>> THEN <<>>
    ELSE (IF v[1].ty = "str" THEN StrVal(v[1].c) ELSE v[1].c) \o CanonicalItems(Tail(v))

\* The canonical form of the list v.
Canonical(v) == <<"L">> \o CanonicalItems(v) \o <<"/L">>

\* ------------------------------------------------------------------------
\* State
\* ------------------------------------------------------------------------

\* The requests in flight.
Req == {"r1", "r2"}

VARIABLES
    result_text,    \* the text given to parse_mcp_result
    origin,         \* the value result_text was serialized from, in canonical
                    \*   form; <<>> when it is just a text
    parsed,         \* what parse_mcp_result did with it ("pending" before)
    sql_question,   \* the question given to generate_smart_sql_no_schema
    sql_tables,     \* the table_names given to it
    sql,            \* the SQL text it returned, <<>> before
    pc,             \* pc[r]: where request r's task stands
    entry,          \* entry[r]: "ask" (POST /ask) or "intelligent"
                    \*   (a call of claude_intelligent_query)
    question,       \* question[r]
    call,           \* call[r]: arguments of the running query_mcp_server call,
                    \*   the place it returns to, the call_tool requests it
                    \*   has sent and the content of the reply it was given
    session,        \* session[r]: the connection the running call holds
    open_conns,     \* the connections open now: [id, calls, process], process
                    \*   being the subprocess at the other end
    opens,          \* opens[r]: connections the running call has opened
    closes,         \* closes[r]: connections the running call has closed
    pending,        \* pending[r]: what is leaving the call's async-with block
    qres,           \* qres[r]: what the last query_mcp_server call returned
    n_exec,         \* n_exec[r]: query_mcp_server calls made for the request
    executions,     \* executions[r]: the calls of query_mcp_server made so far
                    \*   (for the response being processed), with their arguments
                    \*   since the current response was taken up
    table_names,    \* table_names[r]: the workflow's discovered tables
    llm_calls,      \* llm_calls[r]: claude_client.messages.create calls made
    first_stop,     \* first_stop[r]: stop_reason of the first response
    first_text,     \* first_text[r]: content[0].text of the first response
    response,       \* response[r]: the response process_claude_tool_response holds
    blk,            \* blk[r]: index of the content block the loop is at
    tool_results,   \* tool_results[r]
    messages,       \* messages[r]: the transcript last submitted
    catalog,        \* catalog[r]: the tools= argument of the last submission
    out,            \* out[r]: what the request's query function returned/raised
    http,           \* http[r]: status of the HTTP response, 0 before
    mcp_manager,    \* what /health reports of the lifecycle manager's
                    \*   subprocess: "running" or "stopped"
    mgr_process,    \* mcp_manager.process: 0 for None, else the index in
                    \*   procs of the Popen object it holds
    procs,          \* the subprocesses the manager has spawned, in order:
                    \*   "alive", "killed" (SIGKILL sent, still running) or
                    \*   "exited"
    mgr_ret,        \* the last start_server / stop_server call: what it
                    \*   returned, whether it spawned, its number
    app,            \* the application: "none" (the functions are called
                    \*   without it, as the test scripts do), "init",
                    \*   "serving", "failed" (startup aborted), "shutdown"
    atexit_hook     \* the cleanup function given to atexit:
                    \*   "unregistered", "registered" or "ran"

parseVars == <<result_text, origin, parsed>>

queryVars == <<call, session, open_conns, opens, closes, pending, qres, n_exec, executions>>

llmVars == <<llm_calls, first_stop, first_text, response, blk, tool_results, messages, catalog>>

reqVars == <<pc, entry, question, table_names, out, http>>

sqlVars == <<sql_question, sql_tables, sql>>

mgrVars == <<mcp_manager, mgr_process, procs, mgr_ret, app, atexit_hook>>

vars == <<parseVars, sqlVars, queryVars, llmVars, reqVars, mgrVars>>

Pending == [outcome |-> "pending", exc |-> "none", strategy |-> 0,
            kind |-> "none", val |-> <<>>, has |-> FALSE]

NoCall == [use_tool |-> "none", sql_query |-> "None", schema_name |-> "None",
           object_name |-> "None", ret |-> "none", sent |-> 0, reply |-> <<>>]

NoSession == <<"none", 0>>

NoResponse == [stop_reason |-> "none", content |-> <<>>]

\* ------------------------------------------------------------------------
\* The environment's doubles
\* ------------------------------------------------------------------------

\* Most model turns the LLM double asks for tools in one conversation.
MaxTurns == 2

\* Longest question, in tokens.
MaxQLen == 1

\* question = "what is the email policy"
EmailPolicyQuestion == <<"what", SP, "is", SP, "the", SP, "email", SP, "policy">>

Questions == SeqsUpTo({SP, "policy", "Email", "due"}, MaxQLen) \cup {EmailPolicyQuestion}

\* The questions of the requests that are handled concurrently.
ConcurrentQuestions == {<<"policy">>, <<"due">>}

\* Most words of a question given to generate_smart_sql_no_schema, and most
\* tables in the list given with it.
MaxSqlWords == 2
MaxTables == 2

\* The words of those questions: keywords of the four families, words that
\* are no keyword, a word holding a quote, and a word that closes the string
\* literal it is spliced into and goes on as SQL:
\* x'/**/union/**/select/**/null,null,null/**/from/**/users--
SqlWords ==
    { <<"policy">>, <<"policies?">>, <<"course">>, <<"due">>, <<"module">>, <<"Email">>,
      <<"instructors">>, <<"who">>, <<"x">>, <<"What", SQ, "s">>,
      <<"x", SQ, "/**/union/**/select/**/null,null,null/**/", "from", "/**/", "users", "--">> }

RECURSIVE JoinWords(_)
JoinWords(ws) ==
    IF ws = <<>> THEN <<>>
    ELSE IF Len(ws) = 1 THEN ws[1] ELSE ws[1] \o <<SP>> \o JoinWords(Tail(ws))

\* "What are the course policies?" (src/test_optimization.py) and
\* "who are the instructors" (src/test_instructor_query.py)
InstructorsQuestion == <<"who", SP, "are", SP, "the", SP, "instructors">>

SqlQuestions ==
    {JoinWords(ws) : ws \in SeqsUpTo(SqlWords, MaxSqlWords)}
        \cup {<<"What", SP, "are", SP, "the", SP, "course", SP, "policies?">>,
              InstructorsQuestion, EmailPolicyQuestion}

\* [{"name": "policies", "type": "table"}]
TablesText ==
    <<"[", "{", DQ, "name", DQ, ":", SP, DQ, "policies", DQ, ",", SP,
      DQ, "type", DQ, ":", SP, DQ, "table", DQ, "}", "]">>

\* [{"policy_name": "email", "details": "respond within 48 hours"}]
EmailPolicyRow ==
    <<"[", "{", DQ, "policy_name", DQ, ":", SP, DQ, "email", DQ, ",", SP,
      DQ, "details", DQ, ":", SP, DQ, "respond", SP, "within", SP, "48", SP, "hours", DQ,
      "}", "]">>

\* The texts the subprocess replies with: rows, no rows, a text no strategy
\* parses, a bare number, a set holding a list, the empty text, and the row
\* of the email policy.
ReplyTexts ==
    {TablesText, <<"[", "]">>, <<"x">>, <<"1">>, <<"{", "[", "]", "}">>, <<>>, EmailPolicyRow}

\* result.content of a reply: no content item, or one text.
ReplyContents == {<<>>} \cup {<<t>> : t \in ReplyTexts}

\* The replies given to the requests that are handled concurrently.
ConcurrentReplies == {<<>>, <<TablesText>>, <<<<"x">>>>, <<<<"1">>>>}

DetailsPolicies ==
    ToolUseBlock("toolu_1", "mcp_get_object_details",
                 [NoInput EXCEPT !.object_name = "policies"])

ResponseContents ==
    { <<>>,
      <<TextBlock("Emails are answered within 48 hours.")>>,
      <<DetailsPolicies>>,
      <<TextBlock("note"),
        ToolUseBlock("toolu_2", "mcp_list_objects", [NoInput EXCEPT !.schema_name = "public"])>>,
      <<ToolUseBlock("toolu_1", "mcp_execute_sql", [NoInput EXCEPT !.sql = "SELECT 1;"]),
        ToolUseBlock("toolu_2", "mcp_drop_table", NoInput)>>,
      <<ToolUseBlock("toolu_1", "mcp_get_object_details", NoInput)>>,
      <<ToolUseBlock("toolu_1", "mcp_execute_sql", [NoInput EXCEPT !.sql = ""])>> }

\* The responses the LLM double may give to the call made after n calls: it
\* stops asking for tools after MaxTurns tool-use responses.
Responses(n) ==
    [stop_reason : IF n < MaxTurns THEN {"end_turn", "tool_use"} ELSE {"end_turn"},
     content : ResponseContents]

\* ------------------------------------------------------------------------
\* Initial state: no request has arrived, no connection is open
\* ------------------------------------------------------------------------

Idle ==
    /\ pc = [r \in Req |-> "idle"]
    /\ entry = [r \in Req |-> "none"]
    /\ question = [r \in Req |-> <<>>]
    /\ call = [r \in Req |-> NoCall]
    /\ session = [r \in Req |-> NoSession]
    /\ open_conns = {}
    /\ opens = [r \in Req |-> 0]
    /\ closes = [r \in Req |-> 0]
    /\ pending = [r \in Req |-> Ret(NoResult)]
    /\ qres = [r \in Req |-> NoResult]
    /\ n_exec = [r \in Req |-> 0]
    /\ executions = [r \in Req |-> <<>>]
    /\ table_names = [r \in Req |-> <<>>]
    /\ llm_calls = [r \in Req |-> 0]
    /\ first_stop = [r \in Req |-> "none"]
    /\ first_text = [r \in Req |-> NoOutcome]
    /\ response = [r \in Req |-> NoResponse]
    /\ blk = [r \in Req |-> 0]
    /\ tool_results = [r \in Req |-> <<>>]
    /\ messages = [r \in Req |-> <<>>]
    /\ catalog = [r \in Req |-> <<>>]
    /\ out = [r \in Req |-> NoOutcome]
    /\ http = [r \in Req |-> 0]

\* ------------------------------------------------------------------------
\* MCPServerManager (src/mcp_server_manager.py)
\* ------------------------------------------------------------------------

\* Most subprocesses one manager spawns, and most calls made on it.
MaxProcs == 3
MaxCalls == 5

\* For comparison: a check that never finds the process running.
NeverRunning(proc, ps) == FALSE

\* self.process and self.process.poll() is None
IsRunning(proc, ps) == proc # 0 /\ ps[proc] # "exited"

\* "running" if mcp_manager and mcp_manager.is_running() else "stopped"
McpStatus(proc, ps) == IF IsRunning(proc, ps) THEN "running" ELSE "stopped"

\* No application: the module's functions are called directly and
\* mcp_manager is None.
NoApp ==
    /\ mcp_manager = "stopped"
    /\ mgr_process = 0
    /\ procs = <<>>
    /\ mgr_ret = [op |-> "none", ret |-> FALSE, spawned |-> FALSE, path |-> "none", n |-> 0]
    /\ app = "none"
    /\ atexit_hook = "unregistered"

\* The application after a startup that went well.
Serving ==
    /\ mcp_manager = "running"
    /\ mgr_process = 1
    /\ procs = <<"alive">>
    /\ mgr_ret = [op |-> "start", ret |-> TRUE, spawned |-> TRUE, path |-> "none", n |-> 1]
    /\ app = "serving"
    /\ atexit_hook = "registered"

\* start_server: True at once when the process is running; else Popen,
\* which raises, or gives a process that has exited after the two seconds
\* or is still alive then.
StartServer ==
    /\ mgr_ret.n < MaxCalls
    /\ IF IsRunning(mgr_process, procs)
       THEN /\ mgr_ret' = [op |-> "start", ret |-> TRUE, spawned |-> FALSE,
                           path |-> "none", n |-> mgr_ret.n + 1]
            /\ UNCHANGED <<mgr_process, procs>>
       ELSE \/ /\ mgr_ret' = [op |-> "start", ret |-> FALSE, spawned |-> FALSE,
                              path |-> "none", n |-> mgr_ret.n + 1]
               /\ UNCHANGED <<mgr_process, procs>>
            \/ /\ Len(procs) < MaxProcs
               /\ \E alive \in BOOLEAN :
                    /\ procs' = Append(procs, IF alive THEN "alive" ELSE "exited")
                    /\ mgr_ret' = [op |-> "start", ret |-> alive, spawned |-> TRUE,
                                   path |-> "none", n |-> mgr_ret.n + 1]
               /\ mgr_process' = Len(procs) + 1
    /\ mcp_manager' = McpStatus(mgr_process', procs')

\* stop_server: terminate() and wait(timeout=5); the process has exited
\* when wait returns, or wait times out and kill() is sent, after which
\* stop_server returns without waiting.
StopServer ==
    /\ mgr_ret.n < MaxCalls
    /\ IF IsRunning(mgr_process, procs)
       THEN \E path \in {"terminate", "kill"} :
               /\ procs' = [procs EXCEPT ![mgr_process] =
                               IF path = "terminate" THEN "exited" ELSE "killed"]
               /\ mgr_ret' = [op |-> "stop", ret |-> FALSE, spawned |-> FALSE,
                              path |-> path, n |-> mgr_ret.n + 1]
       ELSE /\ mgr_ret' = [op |-> "stop", ret |-> FALSE, spawned |-> FALSE,
                           path |-> "not_running", n |-> mgr_ret.n + 1]
            /\ UNCHANGED procs
    /\ UNCHANGED mgr_process
    /\ mcp_manager' = McpStatus(mgr_process', procs')

\* A subprocess exits: on its own, or of the SIGKILL it was sent.
ProcessExits ==
    /\ \E p \in 1..Len(procs) :
          /\ procs[p] # "exited"
          /\ procs' = [procs EXCEPT ![p] = "exited"]
    /\ mcp_manager' = McpStatus(mgr_process, procs')
    /\ UNCHANGED <<mgr_process, mgr_ret, app, atexit_hook>>
    /\ UNCHANGED <<parseVars, sqlVars, queryVars, llmVars, reqVars>>

Init ==
    /\ result_text = <<>>
    /\ origin = <<>>
    /\ parsed = Pending
    /\ Idle
    /\ sql_question = <<>> /\ sql_tables = <<>> /\ sql = <<>>
    /\ NoApp \/ Serving

\* ------------------------------------------------------------------------
\* query_mcp_server
\* ------------------------------------------------------------------------

\* The call: its arguments are bound and the try block is entered.
StartCall(r, use_tool, sql_query, schema_name, object_name, ret) ==
    /\ call' = [call EXCEPT ![r] = [use_tool |-> use_tool, sql_query |-> sql_query,
                                    schema_name |-> schema_name,
                                    object_name |-> object_name, ret |-> ret,
                                    sent |-> 0, reply |-> <<>>]]
    /\ n_exec' = [n_exec EXCEPT ![r] = @ + 1]
    /\ executions' = [executions EXCEPT ![r] =
                        Append(@, [use_tool |-> use_tool, sql_query |-> sql_query,
                                   schema_name |-> schema_name,
                                   object_name |-> object_name])]
    /\ opens' = [opens EXCEPT ![r] = 0]
    /\ closes' = [closes EXCEPT ![r] = 0]
    /\ pc' = [pc EXCEPT ![r] = "q_enter"]
    /\ UNCHANGED <<session, open_conns, pending, qres>>

\* For comparison: a pool that hands out a connection that is already open.
PooledSession(r, n, conns) ==
    IF conns = {} THEN <<r, n>> ELSE (CHOOSE c \in conns : TRUE).id

\* The connection stdio_client(server_params) yields to the call numbered n
\* of request r: a new one, its own.
SessionFor(r, n, conns) == <<r, n>>

\* The subprocess stdio_client(server_params) starts from
\* server_params.command for the connection it yields: a child of the call,
\* not mcp_manager.process ("managed").
SpawnedProcess == "spawned"

\* async with stdio_client(server_params) as (read, write): the subprocess
\* is spawned and the pipes are opened, or the spawn raises.
StdioClientEnter(r) ==
    /\ pc[r] = "q_enter"
    /\ \E ok \in BOOLEAN :
         IF ok
         THEN LET id == SessionFor(r, n_exec[r], open_conns)
              IN  /\ session' = [session EXCEPT ![r] = id]
                  /\ open_conns' =
                        IF \E c \in open_conns : c.id = id THEN open_conns
                        ELSE open_conns \cup {[id |-> id, calls |-> <<>>,
                                              process |-> SpawnedProcess]}
                  /\ opens' = [opens EXCEPT ![r] = @ + 1]
                  /\ pc' = [pc EXCEPT ![r] = "q_session"]
                  /\ UNCHANGED pending
         ELSE /\ pending' = [pending EXCEPT ![r] = Exc("FileNotFoundError")]
              /\ pc' = [pc EXCEPT ![r] = "q_return"]
              /\ UNCHANGED <<session, open_conns, opens>>
    /\ UNCHANGED <<call, closes, qres, n_exec, executions>>
    /\ UNCHANGED <<parseVars, sqlVars, mgrVars, llmVars, entry, question, table_names, out, http>>

\* async with ClientSession(read, write) as session: await session.initialize()
SessionInitialize(r) ==
    /\ pc[r] = "q_session"
    /\ \E ok \in BOOLEAN :
         IF ok
         THEN /\ pc' = [pc EXCEPT ![r] = "q_call"]
              /\ UNCHANGED pending
         ELSE /\ pending' = [pending EXCEPT ![r] = Exc("McpError")]
              /\ pc' = [pc EXCEPT ![r] = "q_exit"]
    /\ UNCHANGED <<call, session, open_conns, opens, closes, qres, n_exec, executions>>
    /\ UNCHANGED <<parseVars, sqlVars, mgrVars, llmVars, entry, question, table_names, out, http>>

\* The if/elif chain: session.call_tool(...) is sent on the session's
\* connection, or the else branch raises.
CallTool(r) ==
    /\ pc[r] = "q_call"
    /\ LET c   == call[r]
           req == ToolRequest(c.use_tool, c.sql_query, c.schema_name, c.object_name)
       IN  IF req.tool = "invalid"
           THEN /\ pending' = [pending EXCEPT ![r] =
                                 Exc("Invalid tool or missing required parameters")]
                /\ pc' = [pc EXCEPT ![r] = "q_exit"]
                /\ UNCHANGED <<open_conns, call>>
           ELSE /\ open_conns' =
                      {IF k.id = session[r]
                       THEN [k EXCEPT !.calls = Append(@, <<r, n_exec[r]>>)]
                       ELSE k : k \in open_conns}
                /\ call' = [call EXCEPT ![r].sent = @ + 1]
                /\ pc' = [pc EXCEPT ![r] = "q_wait"]
                /\ UNCHANGED pending
    /\ UNCHANGED <<session, opens, closes, qres, n_exec, executions>>
    /\ UNCHANGED <<parseVars, sqlVars, mgrVars, llmVars, entry, question, table_names, out, http>>

\* The awaited call_tool completes: it raises, or its result is processed.
ToolReply(r, replies) ==
    /\ pc[r] = "q_wait"
    /\ \E reply \in {"raise", "result"} :
         IF reply = "raise"
         THEN /\ pending' = [pending EXCEPT ![r] = Exc("McpError")]
              /\ UNCHANGED call
         ELSE \E content \in replies :
                 /\ pending' = [pending EXCEPT ![r] = ProcessReply(call[r].use_tool, content)]
                 /\ call' = [call EXCEPT ![r].reply = content]
    /\ pc' = [pc EXCEPT ![r] = "q_exit"]
    /\ UNCHANGED <<session, open_conns, opens, closes, qres, n_exec, executions>>
    /\ UNCHANGED <<parseVars, sqlVars, mgrVars, llmVars, entry, question, table_names, out, http>>

\* For comparison: a close that is written at the end of the try block, and
\* so is skipped by an exception.
ClosesOnReturn(leaving) == leaving.tag = "ret"

\* Whether leaving the async-with blocks closes the connection, for what is
\* leaving them: async with closes on a return and on an exception alike.
ClosesOnExit(leaving) == TRUE

\* The async-with blocks are left: the session and the pipes are closed.
ExitContexts(r) ==
    /\ pc[r] = "q_exit"
    /\ IF ClosesOnExit(pending[r])
       THEN /\ open_conns' = {k \in open_conns : k.id # session[r]}
            /\ closes' = [closes EXCEPT ![r] = @ + 1]
       ELSE UNCHANGED <<open_conns, closes>>
    /\ session' = [session EXCEPT ![r] = NoSession]
    /\ pc' = [pc EXCEPT ![r] = "q_return"]
    /\ UNCHANGED <<call, opens, pending, qres, n_exec, executions>>
    /\ UNCHANGED <<parseVars, sqlVars, mgrVars, llmVars, entry, question, table_names, out, http>>

\* What the call returns: the value returned in the try block, or the except
\* clause's failed result.
QueryResult(leaving) ==
    IF leaving.tag = "exc" THEN McpServerError(leaving.exc) ELSE leaving.res

\* query_mcp_server returns to its caller.
QueryReturn(r) ==
    /\ pc[r] = "q_return"
    /\ qres' = [qres EXCEPT ![r] = QueryResult(pending[r])]
    /\ pc' = [pc EXCEPT ![r] = call[r].ret]
    /\ UNCHANGED <<call, session, open_conns, opens, closes, pending, n_exec, executions>>
    /\ UNCHANGED <<parseVars, sqlVars, mgrVars, llmVars, entry, question, table_names, out, http>>

\* ------------------------------------------------------------------------
\* The LLM service call
\* ------------------------------------------------------------------------

ApiError == [stop_reason |-> "api_error", content |-> <<>>]

\* tools=[...] of claude_intelligent_query's call, by name (<<>> stands for a
\* call made without a tools argument).
ToolCatalog == <<"mcp_list_objects", "mcp_get_object_details", "mcp_execute_sql">>

\* What claude_client.messages.create does on the call made after n calls:
\* it returns a response or raises.  The call is synchronous: nothing else
\* runs in the serving process until it is over.
LlmOutcomes(n) == Responses(n) \cup {ApiError}

\* The first response of a request is noted, for reference.
NoteFirst(r, o) ==
    IF llm_calls[r] = 0 /\ o # ApiError
    THEN /\ first_stop' = [first_stop EXCEPT ![r] = o.stop_reason]
         /\ first_text' = [first_text EXCEPT ![r] = FirstText(o.content)]
    ELSE UNCHANGED <<first_stop, first_text>>

\* One message of a transcript; text is a sequence of tokens.
Message(role, text, blocks, tool_use_id, content) ==
    [role |-> role, text |-> text, blocks |-> blocks,
     tool_use_id |-> tool_use_id, content |-> content]

\* result.get("raw", str(result)): the diagnostic text, or the whole result
\* shown as text.
ResultContent(res) ==
    [raw |-> res.raw, shown |-> IF res.raw = "absent" THEN res ELSE NoResult]

\* ------------------------------------------------------------------------
\* POST /ask: ask_question, claude_orchestrated_query,
\* claude_orchestrated_query_optimized, execute_fresh_connection_workflow
\* ------------------------------------------------------------------------

NoTablesAnswer == "I couldn't access the database tables."
NoInfoAnswer   == "I couldn't find any relevant information for your question."
ErrorPrefix    == "I encountered an error while processing your question: "

\* For comparison: the test without the strip().
NotGiven(q) == q = <<>>

\* not request.question or request.question.strip() == ""
QuestionIsEmpty(q) == q = <<>> \/ Strip(q) = <<>>

\* For comparison: no except clause, the exception goes on to the caller.
Reraise(o) == o

\* except Exception as e: return f"I encountered an error ...: {str(e)}"
CatchException(o) == IF o.tag = "exc" THEN RetS(ErrorPrefix \o o.exc) ELSE o

\* ask_question up to its call of claude_orchestrated_query.
AskQuestion(r, asked) ==
    /\ pc[r] = "idle"
    /\ \E q \in asked :
         /\ question' = [question EXCEPT ![r] = q]
         /\ IF QuestionIsEmpty(q)
            THEN /\ http' = [http EXCEPT ![r] = 400]
                 /\ pc' = [pc EXCEPT ![r] = "done"]
            ELSE /\ pc' = [pc EXCEPT ![r] = "workflow"]
                 /\ UNCHANGED http
    /\ entry' = [entry EXCEPT ![r] = "ask"]
    /\ UNCHANGED <<parseVars, sqlVars, mgrVars, queryVars, llmVars, table_names, out>>

\* Step 1: query_mcp_server(use_tool="list_objects", schema_name="public")
WorkflowListObjects(r) ==
    /\ pc[r] = "workflow"
    /\ StartCall(r, "list_objects", "None", "public", "None", "wf_tables")
    /\ UNCHANGED <<parseVars, sqlVars, mgrVars, llmVars, entry, question, table_names, out, http>>

\* From the return of step 1 to the call of step 3.
WorkflowExecuteSql(r) ==
    /\ pc[r] = "wf_tables"
    /\ LET data == qres[r].data
       IN  IF ~qres[r].success \/ ~Truthy(data)
           THEN /\ out' = [out EXCEPT ![r] = RetS(NoTablesAnswer)]
                /\ pc' = [pc EXCEPT ![r] = "respond"]
                /\ UNCHANGED <<queryVars, table_names>>
           ELSE IF TableNamesRaise(data)
           THEN /\ out' = [out EXCEPT ![r] = CatchException(ExcS("AttributeError"))]
                /\ pc' = [pc EXCEPT ![r] = "respond"]
                /\ UNCHANGED <<queryVars, table_names>>
           ELSE /\ table_names' = [table_names EXCEPT ![r] = TableNames(data)]
                /\ \E text \in GenerateSmartSql(question[r], TableNames(data)) :
                      StartCall(r, "execute_sql", WordText(text), "public", "None", "wf_sql")
                /\ UNCHANGED out
    /\ UNCHANGED <<parseVars, sqlVars, mgrVars, llmVars, entry, question, http>>

\* For comparison: the test `if sql_result:`, true of every result.
GotResult(res) == TRUE

\* For comparison: the test `if sql_result.get("success"):`, true of a query
\* that gave no rows.
Succeeded(res) == res.success

\* if sql_result.get("success") and sql_result.get("data"):
HasRows(res) == res.success /\ Truthy(res.data)

\* From the return of step 3 to the workflow's return: the summary is asked
\* of the LLM when the query gave data.
WorkflowSummarize(r) ==
    /\ pc[r] = "wf_sql"
    /\ IF HasRows(qres[r])
       THEN IF JoinRaises(table_names[r])
            THEN /\ out' = [out EXCEPT ![r] = CatchException(ExcS("TypeError"))]
                 /\ UNCHANGED llmVars
            ELSE /\ messages' = [messages EXCEPT ![r] =
                       <<Message("user",
                                 FinalPrompt(question[r], table_names[r], qres[r].data),
                                 <<>>, "none", ResultContent(NoResult))>>]
                 /\ catalog' = [catalog EXCEPT ![r] = <<>>]
                 /\ llm_calls' = [llm_calls EXCEPT ![r] = @ + 1]
                 /\ \E o \in LlmOutcomes(llm_calls[r]) :
                       /\ NoteFirst(r, o)
                       /\ out' = [out EXCEPT ![r] =
                                    CatchException(IF o = ApiError THEN ExcS("APIError")
                                                   ELSE FirstText(o.content))]
                 /\ UNCHANGED <<response, blk, tool_results>>
       ELSE /\ out' = [out EXCEPT ![r] = RetS(NoInfoAnswer)]
            /\ UNCHANGED llmVars
    /\ pc' = [pc EXCEPT ![r] = "respond"]
    /\ UNCHANGED <<parseVars, sqlVars, mgrVars, queryVars, entry, question, table_names, http>>

\* claude_orchestrated_query_optimized's own try/except, then ask_question's:
\* the AnswerResponse, or HTTP 500 for an exception that got this far.
AskRespond(r) ==
    /\ pc[r] = "respond"
    /\ LET o == CatchException(out[r])
       IN  /\ out' = [out EXCEPT ![r] = o]
           /\ http' = [http EXCEPT ![r] = IF o.tag = "ret" THEN 200 ELSE 500]
    /\ pc' = [pc EXCEPT ![r] = "done"]
    /\ UNCHANGED <<parseVars, sqlVars, mgrVars, queryVars, llmVars, entry, question, table_names>>

\* ------------------------------------------------------------------------
\* claude_intelligent_query and process_claude_tool_response
\* ------------------------------------------------------------------------

NoContentAnswer == "I encountered an issue processing the response - no content returned."

ContinuationPrompt ==
    <<"EXECUTE STEP 2 NOW: Call mcp_get_object_details(object_name=\"policies\") immediately. Do not explain, just make the tool call.">>

\* The prompt claude_intelligent_query builds around the question, as a
\* sequence of tokens: the lines of the f-string, "\n" between them.
IntelligentPrompt(q) ==
    <<"You are a database assistant with access to MCP tools for a Supabase PostgreSQL database.",
      "\n",
      "\n",
      "Student Question: \"">>
    \o q \o
    <<"\"",
      "\n",
      "\n",
      "Your database has these main tables: assignments, modules, policies, course_info",
      "\n",
      "\n",
      "Available MCP tools:",
      "\n",
      "1. mcp_list_objects(schema_name=\"public\") - Lists all tables in the schema",
      "\n",
      "2. mcp_get_object_details(object_name=\"table_name\") - Gets column details for a table  ",
      "\n",
      "3. mcp_execute_sql(sql=\"SELECT ...\") - Executes SQL queries (read-only)",
      "\n",
      "\n",
      "CRITICAL: You MUST complete ALL steps of this workflow. Do not stop until you have executed a SQL query and provided a complete answer.",
      "\n",
      "\n",
      "CRITICAL: Make ALL tool calls in your FIRST response. Do not wait for tool results to make the next call.",
      "\n",
      "\n",
      "For email policy questions, you must immediately call:",
      "\n",
      "1. mcp_list_objects(schema_name=\"public\")",
      "\n",
      "2. mcp_get_object_details(object_name=\"policies\") ",
      "\n",
      "3. mcp_execute_sql(sql=\"SELECT * FROM policies WHERE policy_name ILIKE '%email%' OR policy_description ILIKE '%email%' OR details ILIKE '%email%'\")",
      "\n",
      "\n",
      "IMPORTANT: Make all 3 tool calls RIGHT NOW in this response. Do not explain what you will do - just execute all the tools immediately.">>

\* For comparison: a tool result that does not name its tool_use block.
UntaggedResult(block, res) ==
    Message("user", <<>>, <<>>, "none", ResultContent(res))

\* {"type": "tool_result", "tool_use_id": content_block.id, "content": ...}
ToolResultMessage(block, res) ==
    Message("user", <<>>, <<>>, block.id, ResultContent(res))

\* The response is handed to process_claude_tool_response, or the except
\* clause of claude_intelligent_query returns.
IntelligentQuery(r) ==
    /\ pc[r] = "idle"
    /\ \E q \in Questions :
         /\ question' = [question EXCEPT ![r] = q]
         /\ messages' = [messages EXCEPT ![r] =
               <<Message("user", IntelligentPrompt(q), <<>>, "none",
                         ResultContent(NoResult))>>]
    /\ entry' = [entry EXCEPT ![r] = "intelligent"]
    /\ catalog' = [catalog EXCEPT ![r] = ToolCatalog]
    /\ \E o \in LlmOutcomes(llm_calls[r]) :
         /\ llm_calls' = [llm_calls EXCEPT ![r] = @ + 1]
         /\ NoteFirst(r, o)
         /\ IF o = ApiError
            THEN /\ out' = [out EXCEPT ![r] = CatchException(ExcS("APIError"))]
                 /\ pc' = [pc EXCEPT ![r] = "done"]
                 /\ UNCHANGED response
            ELSE /\ response' = [response EXCEPT ![r] = o]
                 /\ pc' = [pc EXCEPT ![r] = "pctr"]
                 /\ UNCHANGED out
    /\ UNCHANGED <<blk, tool_results>>
    /\ UNCHANGED <<parseVars, sqlVars, mgrVars, queryVars, table_names, http>>

\* For comparison: the tools are run whenever the content holds a tool_use
\* block, whatever the stop reason.
HasToolUseBlock(resp) == \E k \in 1..Len(resp.content) : resp.content[k].type = "tool_use"

\* if response.stop_reason == "tool_use":
WantsTools(resp) == resp.stop_reason = "tool_use"

\* process_claude_tool_response is entered with response[r].
ProcessResponse(r) ==
    /\ pc[r] = "pctr"
    /\ IF WantsTools(response[r])
       THEN /\ blk' = [blk EXCEPT ![r] = 1]
            /\ tool_results' = [tool_results EXCEPT ![r] = <<>>]
            /\ executions' = [executions EXCEPT ![r] = <<>>]
            /\ pc' = [pc EXCEPT ![r] = "pctr_loop"]
            /\ UNCHANGED out
       ELSE /\ out' = [out EXCEPT ![r] = CatchException(FirstText(response[r].content))]
            /\ pc' = [pc EXCEPT ![r] = "done"]
            /\ UNCHANGED <<blk, tool_results, executions>>
    /\ UNCHANGED <<call, session, open_conns, opens, closes, pending, qres, n_exec>>
    /\ UNCHANGED <<llm_calls, first_stop, first_text, response, messages, catalog>>
    /\ UNCHANGED <<parseVars, sqlVars, mgrVars, entry, question, table_names, http>>

\* For comparison: a dispatch that raises for a name outside the catalog.
StrictDispatch(block) ==
    CASE block.name = "mcp_list_objects" ->
            IF block.input.schema_name = "absent" THEN "KeyError" ELSE "list_objects"
      [] block.name = "mcp_get_object_details" ->
            IF block.input.object_name = "absent" THEN "KeyError" ELSE "get_object_details"
      [] block.name = "mcp_execute_sql" ->
            IF block.input.sql = "absent" THEN "KeyError" ELSE "execute_sql"
      [] OTHER -> "KeyError"

\* The tool the loop runs for a tool_use block: "unknown" for a name outside
\* the catalog, "KeyError" when tool_input lacks the argument read.
Dispatch(block) ==
    CASE block.name = "mcp_list_objects" ->
            IF block.input.schema_name = "absent" THEN "KeyError" ELSE "list_objects"
      [] block.name = "mcp_get_object_details" ->
            IF block.input.object_name = "absent" THEN "KeyError" ELSE "get_object_details"
      [] block.name = "mcp_execute_sql" ->
            IF block.input.sql = "absent" THEN "KeyError" ELSE "execute_sql"
      [] OTHER -> "unknown"

\* For comparison: a loop that is left once one block has been handled.
AfterFirstBlock(k, content) == k > 1 \/ k > Len(content)

\* for i, content_block in enumerate(response.content): the loop is over
\* when the block index k has passed the last block.
LoopOver(k, content) == k > Len(content)

\* One pass of the loop over response.content, up to the call it makes.
ProcessBlock(r) ==
    /\ pc[r] = "pctr_loop"
    /\ ~LoopOver(blk[r], response[r].content)
    /\ LET block == response[r].content[blk[r]]
           tool  == Dispatch(block)
       IN  IF block.type # "tool_use"
           THEN /\ blk' = [blk EXCEPT ![r] = @ + 1]
                /\ UNCHANGED <<pc, out, tool_results, call, session, open_conns,
                               opens, closes, pending, qres, n_exec, executions>>
           ELSE IF tool = "KeyError"
           THEN /\ out' = [out EXCEPT ![r] = CatchException(ExcS("KeyError"))]
                /\ pc' = [pc EXCEPT ![r] = "done"]
                /\ UNCHANGED <<blk, tool_results, call, session, open_conns,
                               opens, closes, pending, qres, n_exec, executions>>
           ELSE IF tool = "unknown"
           THEN /\ tool_results' = [tool_results EXCEPT ![r] =
                      Append(@, ToolResultMessage(block,
                                   ToolResult(FALSE, <<>>, "Unknown tool: " \o block.name)))]
                /\ blk' = [blk EXCEPT ![r] = @ + 1]
                /\ UNCHANGED <<pc, out, call, session, open_conns,
                               opens, closes, pending, qres, n_exec, executions>>
           ELSE /\ StartCall(r, tool,
                             IF tool = "execute_sql" THEN block.input.sql ELSE "None",
                             IF tool = "list_objects" THEN block.input.schema_name
                                                      ELSE "public",
                             IF tool = "get_object_details" THEN block.input.object_name
                                                            ELSE "None",
                             "pctr_result")
                /\ UNCHANGED <<blk, out, tool_results>>
    /\ UNCHANGED <<llm_calls, first_stop, first_text, response, messages, catalog>>
    /\ UNCHANGED <<parseVars, sqlVars, mgrVars, entry, question, table_names, http>>

\* tool_results.append(...) after the call has returned.
AppendToolResult(r) ==
    /\ pc[r] = "pctr_result"
    /\ tool_results' = [tool_results EXCEPT ![r] =
           Append(@, ToolResultMessage(response[r].content[blk[r]], qres[r]))]
    /\ blk' = [blk EXCEPT ![r] = @ + 1]
    /\ pc' = [pc EXCEPT ![r] = "pctr_loop"]
    /\ UNCHANGED <<llm_calls, first_stop, first_text, response, messages, catalog>>
    /\ UNCHANGED <<parseVars, sqlVars, mgrVars, queryVars, entry, question, table_names, out, http>>

\* The transcript submitted after the loop.
Continuation(resp, results) ==
    <<Message("user", ContinuationPrompt, <<>>, "none", ResultContent(NoResult)),
      Message("assistant", <<>>, resp.content, "none", ResultContent(NoResult))>> \o results

\* After the loop: the transcript is submitted, and the final response is
\* returned as text or handed to process_claude_tool_response again.
ContinueConversation(r) ==
    /\ pc[r] = "pctr_loop"
    /\ LoopOver(blk[r], response[r].content)
    /\ messages' = [messages EXCEPT ![r] = Continuation(response[r], tool_results[r])]
    /\ catalog' = [catalog EXCEPT ![r] = <<>>]
    /\ llm_calls' = [llm_calls EXCEPT ![r] = @ + 1]
    /\ \E o \in LlmOutcomes(llm_calls[r]) :
         IF o = ApiError
         THEN /\ out' = [out EXCEPT ![r] = CatchException(ExcS("APIError"))]
              /\ pc' = [pc EXCEPT ![r] = "done"]
              /\ UNCHANGED response
         ELSE IF Len(o.content) = 0
         THEN /\ out' = [out EXCEPT ![r] = RetS(NoContentAnswer)]
              /\ pc' = [pc EXCEPT ![r] = "done"]
              /\ UNCHANGED response
         ELSE IF o.stop_reason = "tool_use"
         THEN /\ response' = [response EXCEPT ![r] = o]
              /\ pc' = [pc EXCEPT ![r] = "pctr"]
              /\ UNCHANGED out
         ELSE /\ out' = [out EXCEPT ![r] = CatchException(FirstText(o.content))]
              /\ pc' = [pc EXCEPT ![r] = "done"]
              /\ UNCHANGED response
    /\ UNCHANGED <<first_stop, first_text, blk, tool_results>>
    /\ UNCHANGED <<parseVars, sqlVars, mgrVars, queryVars, entry, question, table_names, http>>

\* ------------------------------------------------------------------------
\* Specifications
\* ------------------------------------------------------------------------

Query(r, replies) ==
    \/ StdioClientEnter(r)
    \/ SessionInitialize(r)
    \/ CallTool(r)
    \/ ToolReply(r, replies)
    \/ ExitContexts(r)
    \/ QueryReturn(r)

Ask(r, asked) ==
    \/ AskQuestion(r, asked)
    \/ WorkflowListObjects(r)
    \/ WorkflowExecuteSql(r)
    \/ WorkflowSummarize(r)
    \/ AskRespond(r)

Intelligent(r) ==
    \/ IntelligentQuery(r)
    \/ ProcessResponse(r)
    \/ ProcessBlock(r)
    \/ AppendToolResult(r)
    \/ ContinueConversation(r)

\* Spec: one request, which is a POST /ask or a call of
\* claude_intelligent_query.
Spec == Init /\ [][Ask("r1", Questions) \/ Intelligent("r1") \/ Query("r1", ReplyContents)]_vars

\* SpecAsk: the requests of Req are POSTed to /ask and handled concurrently,
\* a task each; a task runs until it awaits.
SpecAsk ==
    Init /\ [][\E r \in Req : Ask(r, ConcurrentQuestions) \/ Query(r, ConcurrentReplies)]_vars

\* SpecParse: parse_mcp_result applied to every text of up to MaxLen tokens.
InitParse ==
    /\ \/ /\ result_text \in SeqsUpTo(Alphabet, MaxLen)
          /\ origin = <<>>
       \/ \E v \in Values, dialect \in Dialects :
             /\ Writable(dialect, v)
             /\ result_text = Serialize(dialect, v)
             /\ origin = Canonical(v)
    /\ parsed = Pending
    /\ sql_question = <<>> /\ sql_tables = <<>> /\ sql = <<>>
    /\ Idle
    /\ NoApp

CallParseMcpResult ==
    /\ parsed.outcome = "pending"
    /\ parsed' = ParseMcpResult(result_text)
    /\ UNCHANGED <<result_text, origin, sqlVars, queryVars, llmVars, reqVars, mgrVars>>

SpecParse == InitParse /\ [][CallParseMcpResult]_vars

\* SpecSql: generate_smart_sql_no_schema applied to the questions of up to
\* MaxSqlWords words and the lists of up to MaxTables discovered tables: the
\* four tables the routing knows, and one it does not.
InitSql ==
    /\ sql_question \in SqlQuestions
    /\ sql_tables \in SeqsUpTo({StrVal(<<n>>) : n \in {"assignments", "modules", "policies",
                                                      "course_info", "notes"}}, MaxTables)
    /\ sql = <<>>
    /\ result_text = <<>> /\ origin = <<>> /\ parsed = Pending
    /\ Idle
    /\ NoApp

CallGenerateSmartSql ==
    /\ sql = <<>>
    /\ sql' \in GenerateSmartSql(sql_question, sql_tables)
    /\ UNCHANGED <<sql_question, sql_tables, parseVars, queryVars, llmVars, reqVars, mgrVars>>

SpecSql == InitSql /\ [][CallGenerateSmartSql]_vars

\* SpecManager: start_server and stop_server called in any order on one
\* MCPServerManager, new or started, while its subprocesses may exit at any
\* time.
CallStartServer ==
    /\ StartServer
    /\ UNCHANGED <<parseVars, sqlVars, queryVars, llmVars, reqVars, app, atexit_hook>>

CallStopServer ==
    /\ StopServer
    /\ UNCHANGED <<parseVars, sqlVars, queryVars, llmVars, reqVars, app, atexit_hook>>

SpecManager == Init /\ [][CallStartServer \/ CallStopServer \/ ProcessExits]_vars

\* For comparison: a startup that goes on whatever start_server returned.
StartIgnored(ret) == TRUE

\* if mcp_manager.start_server():
StartOk(ret) == ret

\* lifespan up to its yield: the manager is built (its constructor raises
\* when DATABASE_URI is not set) and started; RuntimeError when the start
\* failed, else the cleanup is given to atexit and the application serves.
LifespanStartup ==
    /\ app = "init"
    /\ \/ /\ app' = "failed"
          /\ UNCHANGED <<mcp_manager, mgr_process, procs, mgr_ret, atexit_hook>>
       \/ /\ StartServer
          /\ app' = IF StartOk(mgr_ret'.ret) THEN "serving" ELSE "failed"
          /\ atexit_hook' = IF StartOk(mgr_ret'.ret) THEN "registered" ELSE "unregistered"
    /\ UNCHANGED <<parseVars, sqlVars, queryVars, llmVars, reqVars>>

\* lifespan after its yield, run once the requests in flight are over.
LifespanShutdown ==
    /\ app = "serving"
    /\ \A r \in Req : pc[r] \in {"idle", "done"}
    /\ StopServer
    /\ app' = "shutdown"
    /\ UNCHANGED <<parseVars, sqlVars, queryVars, llmVars, reqVars, atexit_hook>>

\* cleanup(), run by atexit when the interpreter exits.
AtExitCleanup ==
    /\ app = "shutdown"
    /\ atexit_hook = "registered"
    /\ StopServer
    /\ atexit_hook' = "ran"
    /\ UNCHANGED <<parseVars, sqlVars, queryVars, llmVars, reqVars, app>>

\* A request is handled while the application serves.
Serve(r) == app = "serving" /\ (Ask(r, ConcurrentQuestions) \/ Query(r, ConcurrentReplies))

\* SpecApp: the application from its startup to the interpreter's exit,
\* serving POST /ask requests in between.
InitApp ==
    /\ result_text = <<>> /\ origin = <<>> /\ parsed = Pending
    /\ sql_question = <<>> /\ sql_tables = <<>> /\ sql = <<>>
    /\ Idle
    /\ mcp_manager = "stopped" /\ mgr_process = 0 /\ procs = <<>> /\ mgr_ret = [op |-> "none", ret |-> FALSE, spawned |-> FALSE, path |-> "none", n |-> 0]
    /\ app = "init"
    /\ atexit_hook = "unregistered"

SpecApp ==
    InitApp /\ [][LifespanStartup \/ Serve("r1") \/ LifespanShutdown
                     \/ AtExitCleanup \/ ProcessExits]_vars

\* ------------------------------------------------------------------------
\* Properties
\* ------------------------------------------------------------------------

\* Request r's task is inside query_mcp_server.
InQuery(r) == pc[r] \in {"q_enter", "q_session", "q_call", "q_wait", "q_exit", "q_return"}

\* The question holds nothing but whitespace (or nothing at all).
Blank(q) == \A k \in 1..Len(q) : q[k] = SP

\* C1: process_claude_tool_response returns after at most a fixed number of
\* model turns.  MaxTurns stands for that number; the code has no such
\* limit: a model that answers the first MaxTurns submissions with a
\* tool-use stop is submitted a further transcript, whatever MaxTurns is.
C1_TurnLimit ==
    \A r \in Req : entry[r] = "intelligent" => llm_calls[r] <= MaxTurns

\* C2, as stated: whenever the model's first response of a request has a
\* plain-text stop, the request returns that response's text and issues no
\* tool call at all.  On the POST /ask path the two tool calls of the
\* fixed workflow come before the first model call.
C2_AsStated ==
    \A r \in Req :
        (pc[r] = "done" /\ first_stop[r] \notin {"none", "tool_use"}
                        /\ first_text[r].tag = "ret")
            => (out[r] = first_text[r] /\ n_exec[r] = 0)

\* C2, amended: on the tool-use path (claude_intelligent_query and
\* process_claude_tool_response), when the first response's stop reason is
\* not tool_use and its content begins with a text block, no tool call is
\* ever issued and the text is returned unchanged.
C2_PlainTextStop ==
    \A r \in Req :
        (entry[r] = "intelligent" /\ first_stop[r] \notin {"none", "tool_use"}
                                  /\ first_text[r].tag = "ret")
            => /\ n_exec[r] = 0
               /\ executions[r] = <<>>
               /\ pc[r] \in {"pctr", "done"}
               /\ pc[r] = "done" => out[r] = first_text[r]

\* A first response with a plain-text stop whose content also holds a
\* tool_use block has been answered with its text.
C2_Witness ==
    \E r \in Req :
        /\ entry[r] = "intelligent" /\ pc[r] = "done"
        /\ first_stop[r] = "end_turn"
        /\ HasToolUseBlock(response[r])
        /\ out[r] = RetS("note")

\* C3: when the response being processed asks for mcp_get_object_details
\* with object_name "policies" (and nothing else), then at the step that
\* submits the next transcript exactly one tool execution has been made,
\* get_object_details of "policies", and the transcript submitted holds the
\* response's blocks followed by that execution's result under the id of
\* the tool_use block.
C3_DescribeObject ==
    [][\A r \in Req :
          (/\ pc[r] = "pctr_loop"
           /\ llm_calls'[r] = llm_calls[r] + 1
           /\ response[r].content = <<DetailsPolicies>>)
              => /\ executions[r] =
                        <<[use_tool |-> "get_object_details", sql_query |-> "None",
                           schema_name |-> "public", object_name |-> "policies"]>>
                 /\ Len(messages'[r]) = 3
                 /\ messages'[r][2].blocks = <<DetailsPolicies>>
                 /\ messages'[r][3].tool_use_id = "toolu_1"
                 /\ messages'[r][3].content = ResultContent(qres[r])]_vars

\* The transcript with the successful result of the describe-object request
\* has been submitted.
C3_Witness ==
    \E r \in Req :
        /\ Len(messages[r]) = 3
        /\ messages[r][2].blocks = <<DetailsPolicies>>
        /\ messages[r][3].tool_use_id = "toolu_1"
        /\ messages[r][3].content.shown.success
        /\ Len(executions[r]) = 1

\* C4: once query_mcp_server has left its async-with blocks, and so at its
\* return, the connections it opened are all closed: as many close events
\* as open events, and no connection of the request is open.
C4_ConnectionsClosed ==
    \A r \in Req :
        (~InQuery(r) \/ pc[r] = "q_return")
            => /\ opens[r] = closes[r]
               /\ \A c \in open_conns : c.id[1] # r

\* A call has returned its failed result after an exception raised while
\* its connection was open.
C4_Witness ==
    \E r \in Req :
        /\ ~InQuery(r)
        /\ opens[r] = 1 /\ closes[r] = 1
        /\ qres[r] = McpServerError("McpError")

\* The connections open now that were established for request r's calls.
ConnectionsOf(r) == {c \in open_conns : c.id[1] = r}

\* C5: under every interleaving of the concurrently handled requests, each
\* connection carries at most one call, the call of the invocation it was
\* established for; no two running invocations hold the same connection;
\* and a step of one request changes neither the connections nor the
\* variables of another.
C5_OwnConnection ==
    /\ [](/\ \A c \in open_conns :
                /\ Len(c.calls) <= 1
                /\ \A k \in 1..Len(c.calls) : c.calls[k] = c.id
          /\ \A r \in Req, o \in Req :
                (r # o /\ session[r] # NoSession) => session[r] # session[o])
    /\ [][\A r \in Req, o \in Req :
             (pc'[r] # pc[r] /\ o # r)
                => /\ ConnectionsOf(o)' = ConnectionsOf(o)
                   /\ <<pc[o], question[o], call[o], session[o], pending[o], qres[o],
                        n_exec[o], executions[o], table_names[o], llm_calls[o],
                        out[o], http[o]>>'
                      = <<pc[o], question[o], call[o], session[o], pending[o], qres[o],
                          n_exec[o], executions[o], table_names[o], llm_calls[o],
                          out[o], http[o]>>]_vars

\* Two requests have each a connection open with its call under way.
C5_Witness ==
    /\ Cardinality(open_conns) = 2
    /\ \A c \in open_conns : Len(c.calls) = 1
    /\ \A r \in Req : pc[r] = "q_wait"

\* C6: every failed result query_mcp_server returns has a 'raw' field with
\* a diagnostic text.  The result returned for a reply with no content
\* item, {"success": False, "data": {}}, has none.
C6_FailuresCarryRaw ==
    \A r \in Req :
        (n_exec[r] > 0 /\ ~InQuery(r) /\ ~qres[r].success) => qres[r].raw # "absent"

\* C7: parse_mcp_result never raises, and for a text no strategy accepts it
\* returns the text wrapped under "raw_text" (the wrapper with or without
\* the "parsing_error" entry is taken for the marked one).
C7_NeverRaises ==
    parsed.outcome # "pending"
        => /\ parsed.outcome = "returned"
           /\ parsed.strategy \in {0, 4}
                 => parsed.val \in {RawTextWrapper(result_text, TRUE),
                                    RawTextWrapper(result_text, FALSE)}

\* C8: for a value serialized in any of the dialects, parse_mcp_result
\* returns a value equal to it.
C8_RoundTrip ==
    (parsed.outcome # "pending" /\ origin # <<>>)
        => (parsed.outcome = "returned" /\ parsed.val = origin)

\* C9: a question POSTed to /ask that is empty or all whitespace is
\* answered with HTTP 400, and neither the subprocess nor the LLM service
\* is called for it.
C9_EmptyQuestionRejected ==
    \A r \in Req :
        (entry[r] = "ask" /\ Blank(question[r]))
            => /\ http[r] = 400 /\ pc[r] = "done"
               /\ n_exec[r] = 0 /\ open_conns = {} /\ executions[r] = <<>>
               /\ llm_calls[r] = 0

\* A whitespace-only question has been rejected.
C9_Witness ==
    \E r \in Req : entry[r] = "ask" /\ question[r] = <<SP>> /\ http[r] = 400

\* C10: for a non-empty question POSTed to /ask, whatever fails among the
\* subprocess connection, the tool call and the LLM call,
\* claude_orchestrated_query_optimized returns a string and the request
\* completes with HTTP 200; the HTTP 500 path is never taken.
C10_NoServerError ==
    \A r \in Req :
        entry[r] = "ask"
            => /\ http[r] # 500
               /\ (pc[r] \in {"respond", "done"} /\ ~Blank(question[r])) => out[r].tag = "ret"
               /\ (pc[r] = "done" /\ ~Blank(question[r])) => http[r] = 200

\* A request whose LLM call failed has completed with HTTP 200 and the
\* error text as its answer.
C10_Witness ==
    \E r \in Req :
        /\ entry[r] = "ask" /\ pc[r] = "done" /\ http[r] = 200
        /\ out[r] = RetS(ErrorPrefix \o "APIError")
        /\ n_exec[r] = 2


\* C11: whenever the subprocess cannot be started for a call of a POST /ask
\* request, at the table-discovery step or at the SQL-execution step, the
\* answer is the message that the data could not be accessed.  When the
\* spawn fails at the SQL-execution step the workflow answers that it found
\* no relevant information.
C11_DataAccessMessage ==
    \A r \in Req :
        (/\ entry[r] = "ask" /\ pc[r] \in {"respond", "done"}
         /\ n_exec[r] > 0
         /\ qres[r] = McpServerError("FileNotFoundError"))
            => out[r] = RetS(NoTablesAnswer)

\* C12: when the subprocess replies with one non-empty text, the call
\* returns a successful result whose data is what parse_mcp_result makes of
\* the text: the parsed value of whatever type, or the marked raw text.  A
\* reply that is a bare number, or one on which parse_mcp_result raises,
\* comes back as a failed result without the text.
C12_ReplyBecomesData ==
    \A r \in Req :
        (/\ n_exec[r] > 0 /\ ~InQuery(r)
         /\ Len(call[r].reply) = 1 /\ call[r].reply[1] # <<>>)
            => /\ qres[r].success
               /\ LET p == ParseMcpResult(call[r].reply[1])
                  IN  qres[r].data = IF p.outcome = "returned" THEN p.val
                                     ELSE RawTextWrapper(call[r].reply[1], TRUE)


\* The tool_use blocks of a response's content, in order.
ToolUses(content) == SelectSeq(content, LAMBDA b : b.type = "tool_use")

\* The tool_use blocks that name a tool the loop runs.
KnownToolUses(content) ==
    SelectSeq(content, LAMBDA b : b.type = "tool_use" /\ Dispatch(b) # "unknown")

\* Request r's step submits a transcript after the tool loop.
Resubmits(r) == pc[r] = "pctr_loop" /\ llm_calls'[r] = llm_calls[r] + 1

\* C13: the transcript is resubmitted to the model only when every tool_use
\* block of the response has its result in the transcript submitted, every
\* block naming one of the three tools has been run through
\* query_mcp_server, and no call of query_mcp_server is under way; and no
\* model call is made while the request is inside query_mcp_server or has
\* blocks left.
C13_Barrier ==
    [][\A r \in Req :
          /\ Resubmits(r)
                => /\ \A k \in 1..Len(ToolUses(response[r].content)) :
                         \E m \in 1..Len(messages'[r]) :
                            messages'[r][m].tool_use_id = ToolUses(response[r].content)[k].id
                   /\ Len(executions[r]) = Len(KnownToolUses(response[r].content))
                   /\ Len(tool_results[r]) = Len(ToolUses(response[r].content))
                   /\ \A c \in open_conns : c.id[1] # r
          /\ (InQuery(r) \/ (pc[r] = "pctr_loop" /\ blk[r] <= Len(response[r].content)))
                => llm_calls'[r] = llm_calls[r]]_vars

\* A transcript with the results of both tool_use blocks of a response has
\* been submitted.
C13_Witness ==
    \E r \in Req :
        /\ llm_calls[r] = 2
        /\ Len(ToolUses(response[r].content)) = 2
        /\ Len(messages[r]) = 4
        /\ messages[r][3].tool_use_id = "toolu_1" /\ messages[r][4].tool_use_id = "toolu_2"


\* C14: within one request the transcript is append-only: the transcript
\* of every submission after the first has the transcript of the submission
\* before it as a prefix.  The code builds the transcript of every
\* continuation anew, from a fixed instruction, the current response and
\* its results: the first prompt is dropped at the first continuation.
C14_AppendOnly ==
    [][\A r \in Req :
          (llm_calls[r] > 0 /\ llm_calls'[r] = llm_calls[r] + 1)
             => /\ Len(messages[r]) <= Len(messages'[r])
                /\ SubSeq(messages'[r], 1, Len(messages[r])) = messages[r]]_vars


\* C15: every tool_use block of a response is run once and gives one tool
\* result with the block's id: in every transcript submitted after a tool
\* loop the results follow the assistant turn one for one, in the order of
\* its tool_use blocks and with their ids; when the transcript is submitted
\* query_mcp_server has been called once for each block that names one of
\* the three tools; and a request that ends on a tool-use response has a
\* result for each of its tool_use blocks.  A block whose input lacks the
\* argument read raises KeyError in the loop: the request ends with no
\* result for the block, and the results of the blocks before it are lost.
C15_OneResultPerInvocation ==
    /\ [](\A r \in Req :
            /\ Len(messages[r]) >= 2
                  => LET uses == ToolUses(messages[r][2].blocks)
                     IN  /\ messages[r][2].role = "assistant"
                         /\ Len(messages[r]) = 2 + Len(uses)
                         /\ \A k \in 1..Len(uses) :
                               messages[r][2 + k].tool_use_id = uses[k].id
            /\ (pc[r] = "done" /\ WantsTools(response[r]))
                  => LET uses == ToolUses(response[r].content)
                     IN  /\ Len(tool_results[r]) = Len(uses)
                         /\ \A k \in 1..Len(uses) :
                               tool_results[r][k].tool_use_id = uses[k].id)
    /\ [][\A r \in Req :
             Resubmits(r)
                => LET known == KnownToolUses(response[r].content)
                   IN  /\ messages'[r][2].blocks = response[r].content
                       /\ Len(executions[r]) = Len(known)
                       /\ \A k \in 1..Len(known) :
                             executions[r][k].use_tool = Dispatch(known[k])]_vars


\* The last query_mcp_server call of request r has returned a failed result.
CallFailed(r) == n_exec[r] > 0 /\ ~InQuery(r) /\ ~qres[r].success

\* Request r's step makes no external call: it starts no query_mcp_server
\* call and submits nothing to the LLM.
NoExternalCall(r) == n_exec'[r] = n_exec[r] /\ llm_calls'[r] = llm_calls[r]

\* C16 as stated: once a call has failed, the request makes no further
\* external call.  In the tool loop a failed query_mcp_server result is
\* appended as a tool result, the blocks that follow are still run, and the
\* transcript is submitted to the LLM.
C16_AsStated ==
    [][\A r \in Req : CallFailed(r) => NoExternalCall(r)]_vars

\* C16: nothing is retried.  A query_mcp_server call opens at most one
\* connection and sends at most one call_tool; a POST /ask request makes at
\* most two query_mcp_server calls and one LLM call; the tool loop has made
\* at most one call per tool_use block.  A POST /ask request makes no
\* further external call after a failed query_mcp_server call, and no
\* request makes one once its answer is set (as it is by a failed LLM call).
C16_NoRetry ==
    /\ [](\A r \in Req :
            /\ opens[r] <= 1 /\ call[r].sent <= 1
            /\ entry[r] = "ask" => (n_exec[r] <= 2 /\ llm_calls[r] <= 1)
            /\ pc[r] \in {"pctr_loop", "pctr_result"}
                  => Len(executions[r])
                        <= Len(ToolUses(SubSeq(response[r].content, 1,
                                               Min({blk[r], Len(response[r].content)})))))
    /\ [][\A r \in Req :
             /\ (entry[r] = "ask" /\ CallFailed(r)) => NoExternalCall(r)
             /\ out[r].tag # "none" => NoExternalCall(r)]_vars

\* A POST /ask request is over after its execute_sql call failed, without
\* an LLM call.
C16_Witness ==
    \E r \in Req :
        /\ entry[r] = "ask" /\ pc[r] = "done"
        /\ n_exec[r] = 2 /\ ~qres[r].success
        /\ llm_calls[r] = 0


\* Request r's last query_mcp_server call has returned.
CallReturned(r) == n_exec[r] > 0 /\ ~InQuery(r)

\* The arguments name one of the three tools and give the argument it needs.
Sendable(c) ==
    \/ c.use_tool = "list_objects"
    \/ c.use_tool = "get_object_details" /\ c.object_name \notin {"", "None"}
    \/ c.use_tool = "execute_sql" /\ c.sql_query \notin {"", "None"}

\* C17 as stated: a query_mcp_server call that has got its connection and
\* not been failed by the session has sent exactly one call_tool on it,
\* whatever its arguments.  With an empty sql_query the else branch raises
\* on the open connection and nothing is sent.
C17_AsStated ==
    \A r \in Req :
        (CallReturned(r) /\ opens[r] = 1 /\ qres[r] # McpServerError("McpError"))
            => call[r].sent = 1

\* C17: a query_mcp_server call opens at most one connection and sends at
\* most one call_tool, on that connection; no connection ever carries more
\* than one call; a call whose connection was opened and whose session did
\* not fail has sent exactly one call_tool when its arguments name a tool
\* with the argument it needs, and a call with other arguments, or without
\* a connection, has sent none.
C17_OneConnectionOneCall ==
    \A r \in Req :
        /\ opens[r] <= 1 /\ call[r].sent <= opens[r]
        /\ \A c \in open_conns : Len(c.calls) <= 1
        /\ (pc[r] = "q_wait")
              => \E c \in open_conns : c.id = session[r] /\ c.calls = <<c.id>>
        /\ CallReturned(r)
              => /\ (Sendable(call[r]) /\ opens[r] = 1
                        /\ qres[r] # McpServerError("McpError")) => call[r].sent = 1
                 /\ ~Sendable(call[r]) => call[r].sent = 0

\* A call with an empty sql_query has returned after it opened its
\* connection and sent nothing.
C17_Witness ==
    \E r \in Req :
        /\ CallReturned(r)
        /\ call[r].use_tool = "execute_sql" /\ call[r].sql_query = ""
        /\ opens[r] = 1 /\ closes[r] = 1 /\ call[r].sent = 0
        /\ qres[r] = McpServerError("Invalid tool or missing required parameters")


\* C18: every submission whose response is handled as a possible tool-use
\* stop carries the catalog of the three tools: while a response is with
\* process_claude_tool_response, the submission it answers was made with
\* tools=ToolCatalog.  The submission made after the tool loop has no tools
\* argument, and its response is handed to process_claude_tool_response
\* again when its stop reason is tool_use.
C18_CatalogOnToolTurns ==
    \A r \in Req :
        (entry[r] = "intelligent" /\ pc[r] \notin {"idle", "done"})
            => catalog[r] = ToolCatalog


\* C19: query_mcp_server starts no subprocess of its own: every connection
\* of a call is to the subprocess the lifecycle manager started, and a call
\* made while that subprocess is not running returns a failed result.  The
\* code spawns a subprocess for every call and never looks at mcp_manager.
C19_UsesManagedInstance ==
    \A r \in Req :
        /\ \A c \in ConnectionsOf(r) : c.process = "managed"
        /\ (CallReturned(r) /\ mcp_manager = "stopped") => ~qres[r].success


\* C20 as stated: for the question "what is the email policy", with the
\* policies table discovered and the row of the email policy as the reply
\* to execute_sql, the final answer mentions the 48 hours.  The answer is
\* whatever text the LLM service returns, or the error text when its call
\* fails.
C20_AsStated ==
    \A r \in Req :
        (/\ entry[r] = "ask" /\ question[r] = EmailPolicyQuestion
         /\ table_names[r] = <<StrVal(<<"policies">>)>>
         /\ n_exec[r] = 2 /\ call[r].reply = <<EmailPolicyRow>>
         /\ pc[r] = "done")
            => out[r] = RetS("Emails are answered within 48 hours.")

\* C20: in that scenario the SQL is the email-policy search; the prompt
\* submitted to the LLM, the only submission, holds the question and the
\* row with its "48" and does not hold the SQL; and the answer is the text
\* of the first block of the LLM's response as it is, or the error text
\* when the call fails or the response has no such text.
C20_EmailPolicyEndToEnd ==
    \A r \in Req :
        (/\ entry[r] = "ask" /\ question[r] = EmailPolicyQuestion
         /\ table_names[r] = <<StrVal(<<"policies">>)>>
         /\ n_exec[r] = 2 /\ call[r].reply = <<EmailPolicyRow>>
         /\ pc[r] \in {"respond", "done"})
            => /\ call[r].sql_query = WordText(PolicySearch(<<"email">>))
               /\ qres[r].success
               /\ llm_calls[r] = 1 /\ catalog[r] = <<>>
               /\ Len(messages[r]) = 1
               /\ LET prompt == messages[r][1].text
                  IN  /\ SubSeq(prompt, 2, 1 + Len(question[r])) = question[r]
                      /\ \E k \in 1..(Len(prompt) - 6) :
                            SubSeq(prompt, k, k + 6)
                               = <<"respond", SP, "within", SP, "48", SP, "hours">>
                      /\ \A k \in 1..Len(prompt) : prompt[k] # call[r].sql_query
               /\ out[r] = IF first_stop[r] = "none"
                           THEN RetS(ErrorPrefix \o "APIError")
                           ELSE IF first_text[r].tag = "exc"
                           THEN RetS(ErrorPrefix \o first_text[r].exc)
                           ELSE first_text[r]

\* The scenario has ended with an answer of the LLM that mentions the 48
\* hours.
C20_Witness ==
    \E r \in Req :
        /\ entry[r] = "ask" /\ question[r] = EmailPolicyQuestion
        /\ table_names[r] = <<StrVal(<<"policies">>)>>
        /\ n_exec[r] = 2 /\ call[r].reply = <<EmailPolicyRow>>
        /\ pc[r] = "done" /\ http[r] = 200
        /\ out[r] = RetS("Emails are answered within 48 hours.")

\* C21: parse_mcp_result tries json.loads, then ast.literal_eval, then
\* json.loads of the quote/boolean rewrite, in that order, and returns what
\* the first of them that accepts the text makes of it; the result of the
\* rewrite or the final fallback is returned only for a text that both
\* json.loads and ast.literal_eval rejected.
C21_FirstSuccessWins ==
    parsed.outcome # "pending"
        => LET js == JsonLoads(result_text)
               py == LiteralEval(result_text)
               cv == JsonLoads(QuoteConversion(result_text))
               pyOk == py.syn /\ py.ev = "ok"
           IN  /\ js.syn => parsed = Returned(1, js.kind, js.val, js.has)
               /\ (~js.syn /\ pyOk) => parsed = Returned(2, py.kind, py.val, py.has)
               /\ (~js.syn /\ ~pyOk /\ cv.syn)
                     => parsed = Returned(3, cv.kind, cv.val, cv.has)
               /\ (parsed.outcome = "returned" /\ parsed.strategy \in {3, 4})
                     => (~js.syn /\ ~pyOk)

\* A text that json.loads and ast.literal_eval reject and the rewrite makes
\* parseable has been parsed.
C21_Witness ==
    /\ parsed.outcome = "returned"
    /\ parsed.strategy = 3
    /\ ~JsonLoads(result_text).syn
    /\ JsonLoads(QuoteConversion(result_text)).syn

\* The question holds the word "policy" or "policies".
AsksAboutPolicies(q) == \E k \in 1..Len(q) : LowerTok(q[k]) \in {"policy", "policies?"}

\* C22: for a question about policies that holds no assignment keyword and
\* no module keyword, and a list of discovered tables with 'policies' in it,
\* the SQL text of generate_smart_sql_no_schema reads the policies table.
C22_PolicyQuestionsReadPolicies ==
    (/\ sql # <<>>
     /\ AsksAboutPolicies(sql_question)
     /\ ~AnyWord(Lower(sql_question), AssignmentWords)
     /\ ~AnyWord(Lower(sql_question), ModuleWords)
     /\ InNames("policies", sql_tables))
        => "policies" \in TablesFrom(sql, 1, FALSE, FALSE)

\* The family whose query an SQL text is: the policies searches start with
\* the policy columns, the other three families' queries are SELECT * FROM
\* the table with an ORDER BY; "none" for the general search's texts.
RoutedTo(text) ==
    IF text[1] = "SELECT policy_category, policy_name, policy_description, details, specific_rules "
    THEN "policies"
    ELSE IF Len(text) = 5 /\ text[1] = "SELECT * " /\ text[5] # " LIMIT 10;"
    THEN text[4]
    ELSE "none"

\* C23: generate_smart_sql_no_schema checks the families in the order
\* assignments, modules, policies, course_info: the text it returns is the
\* query of the first family in that order whose table is in table_names
\* and one of whose keywords is in the question, and a text of the general
\* search when there is no such family; so a family whose table was not
\* discovered is never chosen, and 'who are the instructors' with
\* course_info discovered gives the course_info query.
C23_FamilyPriority ==
    sql # <<>>
        => LET q    == Lower(sql_question)
               fam  == <<"assignments", "modules", "policies", "course_info">>
               kw   == <<AssignmentWords, ModuleWords, PolicyWords, CourseInfoWords>>
               Discovered(name) ==
                   \E k \in 1..Len(sql_tables) : sql_tables[k] = StrVal(<<name>>)
               hit  == {i \in 1..4 : Discovered(fam[i]) /\ AnyWord(q, kw[i])}
           IN  /\ hit # {} => RoutedTo(sql) = fam[Min(hit)]
               /\ hit = {} => RoutedTo(sql) = "none"
               /\ RoutedTo(sql) # "none" => Discovered(RoutedTo(sql))
               /\ (sql_question = InstructorsQuestion /\ Discovered("course_info"))
                     => sql = <<"SELECT * ", "FROM", SP, "course_info",
                                " ORDER BY info_category, info_type;">>

\* A question with an assignment keyword and a policy keyword, asked when
\* policies was discovered and assignments was not, got the policies query.
C23_Witness ==
    /\ sql # <<>>
    /\ AnyWord(Lower(sql_question), AssignmentWords)
    /\ AnyWord(Lower(sql_question), PolicyWords)
    /\ InNames("policies", sql_tables)
    /\ ~InNames("assignments", sql_tables)
    /\ RoutedTo(sql) = "policies"

\* C27: every SQL text of generate_smart_sql_no_schema reads only tables
\* that are in table_names, whatever the question (words with quote
\* characters included), and for an empty table_names it is 'SELECT 1;'.
\* A question word with a quote ends the string literal the search term is
\* spliced into, and what follows the quote is read as SQL.
C27_ReadsDiscoveredOnly ==
    sql # <<>>
        => /\ \A t \in TablesFrom(sql, 1, FALSE, FALSE) :
                 \E k \in 1..Len(sql_tables) : <<t>> \in NameText(sql_tables[k])
           /\ sql_tables = <<>> => sql = <<"SELECT 1;">>

\* C24: a POST /ask request calls list_objects, then execute_sql, then the
\* LLM, each at most once and in that order; execute_sql is called only
\* when list_objects has returned success with non-empty data, and the LLM
\* only when execute_sql has returned success with non-empty data.
C24_WorkflowOrder ==
    /\ [](\A r \in Req :
            entry[r] = "ask"
                => /\ Len(executions[r]) <= 2
                   /\ llm_calls[r] <= 1
                   /\ Len(executions[r]) >= 1 => executions[r][1].use_tool = "list_objects"
                   /\ Len(executions[r]) = 2 => executions[r][2].use_tool = "execute_sql"
                   /\ llm_calls[r] = 1 => Len(executions[r]) = 2)
    /\ [][\A r \in Req :
            entry[r] = "ask"
                => /\ Len(executions'[r]) = 2 /\ Len(executions[r]) = 1
                        => /\ pc[r] = "wf_tables"
                           /\ qres[r].success
                           /\ qres[r].data \notin {<<>>, <<"D", "/D">>, <<"L", "/L">>,
                                                   <<"S", "/S">>, <<"None">>, <<"False">>}
                   /\ llm_calls'[r] > llm_calls[r]
                        => /\ pc[r] = "wf_sql"
                           /\ Len(executions[r]) = 2
                           /\ qres[r].success
                           /\ qres[r].data \notin {<<>>, <<"D", "/D">>, <<"L", "/L">>,
                                                   <<"S", "/S">>, <<"None">>, <<"False">>}]_vars

\* A POST /ask request has made its two tool calls and its LLM call.
C24_Witness ==
    \E r \in Req :
        /\ entry[r] = "ask"
        /\ Len(executions[r]) = 2
        /\ llm_calls[r] = 1
        /\ pc[r] = "done"
        /\ http[r] = 200

\* C25: the answer of the fresh-connection workflow is the text of the
\* LLM's summary, "I couldn't access the database tables.", "I couldn't
\* find any relevant information for your question." or an "I encountered
\* an error while processing your question: ..." message.  It is the LLM's
\* text exactly when both tool calls returned success with non-empty data
\* and the LLM call returned a response that starts with a text; a query
\* that succeeds with no rows gives the "couldn't find" answer.
C25_WorkflowAnswers ==
    \A r \in Req :
        (entry[r] = "ask" /\ pc[r] \in {"respond", "done"} /\ http[r] # 400)
            => LET empties == {<<>>, <<"D", "/D">>, <<"L", "/L">>, <<"S", "/S">>,
                               <<"None">>, <<"False">>}
                   steps   == /\ Len(executions[r]) = 2
                              /\ qres[r].success
                              /\ qres[r].data \notin empties
                   llm     == /\ llm_calls[r] = 1
                              /\ first_stop[r] # "none"
                              /\ first_text[r].tag = "ret"
                   errors  == {ErrorPrefix \o e : e \in {"AttributeError", "TypeError",
                                                         "IndexError", "APIError"}}
               IN  /\ out[r].tag = "ret"
                   /\ (steps /\ llm) => out[r] = first_text[r]
                   /\ ~(steps /\ llm)
                        => out[r].text \in {NoTablesAnswer, NoInfoAnswer} \cup errors
                   /\ (Len(executions[r]) = 2 /\ qres[r].success /\ qres[r].data = <<"L", "/L">>)
                        => out[r].text = NoInfoAnswer

\* A workflow whose query gave rows has answered with the LLM's text.
C25_Witness ==
    \E r \in Req :
        /\ entry[r] = "ask" /\ pc[r] = "done"
        /\ Len(executions[r]) = 2
        /\ qres[r].success /\ Truthy(qres[r].data)
        /\ llm_calls[r] = 1
        /\ out[r] = first_text[r]
        /\ out[r].tag = "ret"

\* The message that answers a tool_use block naming no tool of the catalog.
UnknownToolAnswer(block) ==
    [role |-> "user", text |-> <<>>, blocks |-> <<>>, tool_use_id |-> block.id,
     content |-> [raw |-> "Unknown tool: " \o block.name, shown |-> NoResult]]

\* C26: when the tool loop comes to a tool_use block whose name is none of
\* the three tools, it appends a tool result with the block's id and the
\* text 'Unknown tool: <name>', opens no connection and makes no
\* query_mcp_server call, and goes on with the loop; the transcript then
\* submitted to the model holds that result.
C26_UnknownTool ==
    [][\A r \in Req :
          LET content == response[r].content
              Unknown(k) == /\ content[k].type = "tool_use"
                            /\ content[k].name \notin
                                  {ToolCatalog[i] : i \in 1..Len(ToolCatalog)}
          IN  /\ (/\ pc[r] = "pctr_loop"
                  /\ blk[r] <= Len(content)
                  /\ Unknown(blk[r])
                  /\ <<pc[r], blk[r], out[r]>> # <<pc'[r], blk'[r], out'[r]>>)
                    => /\ tool_results'[r] =
                             Append(tool_results[r], UnknownToolAnswer(content[blk[r]]))
                       /\ blk'[r] = blk[r] + 1
                       /\ pc'[r] = "pctr_loop"
                       /\ out'[r] = out[r]
                       /\ UNCHANGED <<open_conns, opens, n_exec, executions, call, session>>
              /\ (pc[r] = "pctr_loop" /\ llm_calls'[r] = llm_calls[r] + 1)
                    => \A k \in 1..Len(content) :
                          Unknown(k)
                             => \E j \in 1..Len(messages'[r]) :
                                   messages'[r][j] = UnknownToolAnswer(content[k])]_vars

\* The transcript submitted holds the answer to a tool_use block that named
\* mcp_drop_table, and no call was made for that block.
C26_Witness ==
    \E r \in Req :
        /\ entry[r] = "intelligent"
        /\ llm_calls[r] >= 2
        /\ \E j \in 1..Len(messages[r]) :
              /\ messages[r][j].tool_use_id = "toolu_2"
              /\ messages[r][j].content.raw = "Unknown tool: mcp_drop_table"
        /\ Len(executions[r]) = 1

\* C28: whatever start_server and stop_server calls are made on one
\* MCPServerManager, at most one of the subprocesses it spawned is alive;
\* start_server called while the managed process is alive returns True and
\* spawns nothing; and when start_server returns True the managed process
\* is alive.
C28_OneManagedProcess ==
    /\ [](Cardinality({p \in 1..Len(procs) : procs[p] # "exited"}) <= 1)
    /\ [][(mgr_ret'.n # mgr_ret.n /\ mgr_ret'.op = "start")
            => /\ (mgr_process # 0 /\ procs[mgr_process] # "exited")
                     => (mgr_ret'.ret /\ ~mgr_ret'.spawned /\ procs' = procs)
               /\ mgr_ret'.ret
                     => (mgr_process' # 0 /\ procs'[mgr_process'] # "exited")
               /\ mgr_ret'.spawned <=> Len(procs') = Len(procs) + 1]_vars

\* start_server has returned True without spawning, after an earlier call
\* spawned the process, and a process spawned before that one has exited.
C28_Witness ==
    /\ mgr_ret.op = "start" /\ mgr_ret.ret /\ ~mgr_ret.spawned
    /\ Len(procs) = 2
    /\ procs[1] = "exited" /\ procs[2] = "alive"
    /\ mgr_process = 2

\* C29: when stop_server returns, the managed process is not running
\* (is_running() is false), whether it ended on terminate() or kill() was
\* sent after the wait timed out; and stop_server on a manager without a
\* live process changes nothing.  kill() only sends the signal: stop_server
\* returns without waiting for the process to end.
C29_StoppedOnReturn ==
    [][(mgr_ret'.n # mgr_ret.n /\ mgr_ret'.op = "stop")
          => /\ ~(mgr_process' # 0 /\ procs'[mgr_process'] # "exited")
             /\ ~(mgr_process # 0 /\ procs[mgr_process] # "exited")
                   => (procs' = procs /\ mgr_process' = mgr_process)]_vars

\* C30: a request is taken up only while the application serves, and the
\* application serves only once start_server has returned True; after a
\* failed start the startup has aborted and no request is ever served; the
\* shutdown calls stop_server on the manager that was started.
C30_ServesAfterStart ==
    /\ [](app = "failed" => \A r \in Req : pc[r] = "idle" /\ http[r] = 0)
    /\ [][/\ \A r \in Req : (pc[r] = "idle" /\ pc'[r] # "idle") => app = "serving"
          /\ (app # "serving" /\ app' = "serving")
                => /\ mgr_ret'.op = "start" /\ mgr_ret'.ret
                   /\ mgr_ret'.n = mgr_ret.n + 1
          /\ app = "failed" => app' = "failed"
          /\ (app = "serving" /\ app' # "serving")
                => /\ app' = "shutdown"
                   /\ mgr_ret'.op = "stop"
                   /\ mgr_ret'.n = mgr_ret.n + 1
                   /\ mgr_process' = mgr_process]_vars

\* A request has been answered by an application that started its manager
\* and has since shut down, stopping it.
C30_Witness ==
    /\ app = "shutdown"
    /\ mgr_ret.op = "stop" /\ mgr_ret.path # "not_running"
    /\ pc["r1"] = "done" /\ http["r1"] = 200

====
